---- MODULE Spec2Model ----
(***************************************************************************)
(* The per-CPU run loop of the nanos kernel scheduler                      *)
(* (src/src/kernel/schedule.c): kernel lock, bottom-half and run queues,   *)
(* timer service and platform-timer programming, idle mask, wakeup IPIs    *)
(* and thread migration, as a state machine over the present CPUs.         *)
(*                                                                         *)
(* Every shared-memory access of the run loop is a step of its own; the    *)
(* code between two accesses is folded into the step that follows it.      *)
(* Queues, the idle bitmap, the timer heap, the platform timer and the     *)
(* interrupt entry path live outside the files modelled here and are       *)
(* modelled from their documented behaviour.                               *)
(***************************************************************************)
EXTENDS Integers, Sequences, FiniteSets, TLC

(* ---------------------------------------------------------------- bounds *)
MaxCpus == 3
BootCpus == 2
SchedTasks == 4
TimerTasks == 1
MaxTimers == 2
BootTimers == 1
MaxTime == 2
MaxExpiry == 2
FarExpiry == 7

(* ------------------------------------------------------ program constants *)
QUEUE_CAP == 2048
runloop_timer_min == 1
runloop_timer_max == 2
infinity == 1000

CPUS == 0 .. (MaxCpus - 1)
MaxTasks == IF SchedTasks > TimerTasks THEN SchedTasks ELSE TimerTasks
TaskIds == 1 .. MaxTasks
TimerIds == 1 .. MaxTimers

INVALID_ADDRESS == <<"invalid", 0>>
INVALID_PHYSICAL == -1

cpu_not_present == "not present"
cpu_idle == "idle"
cpu_kernel == "kernel"
cpu_interrupt == "interrupt"
cpu_user == "user"

VARIABLES
    total_processors,   \* number of CPUs brought up
    now,                \* CLOCK_ID_MONOTONIC_RAW
    shutting_down,
    kernel_lock,        \* the spinlock word: TRUE when held
    runqueue,
    bhqueue,
    runloop_timers,     \* the timer heap: ids of the pending timers
    timer_expiry,       \* deadline of each registered timer (-1: never registered)
    timer_overdue,      \* the caller asked for an absolute deadline already past
    idle_cpu_mask,      \* set of CPU ids whose bit is set
    last_timer_update,  \* the global
    state,              \* ci->state
    have_kernel_lock,   \* ci->have_kernel_lock
    ci_last_timer_update, \* ci->last_timer_update
    thread_queue,       \* ci->thread_queue
    pc,                 \* where each CPU is
    t,                  \* runloop_internal's local thunk
    timer_updated,      \* runloop_internal's local
    scan,               \* locals of a migration scan: first_cpu, ncpus, cpu, pass, t
    hw_timer,           \* last deadline the CPU's one-shot timer was programmed for
    irq,                \* interrupts pending at each CPU
    next_id,            \* next unused task id
    next_timer,         \* next unused timer id
    executed,           \* how often each task was applied
    fired,              \* timers whose handler was invoked, in order
    iter_trace,         \* classes of work run in the CPU's current iteration
    limit,              \* what this run may use: task ids, timers, clock ticks
    lock_tried          \* what kern_try_lock returned in the CPU's current iteration

vars == << total_processors, now, shutting_down, kernel_lock, runqueue, bhqueue,
           runloop_timers, timer_expiry, timer_overdue, idle_cpu_mask,
           last_timer_update, state, have_kernel_lock, ci_last_timer_update, thread_queue, pc, t,
           timer_updated, scan, hw_timer, irq, next_id, next_timer, executed,
           fired, iter_trace, limit, lock_tried >>

Present(c) == c < total_processors

(* ---------------------------------------------------------------- queues *)
queue_empty(q) == Len(q) = 0

queue_peek(q) == IF Len(q) = 0 THEN INVALID_ADDRESS ELSE Head(q)

dequeue_rest(q) == IF Len(q) = 0 THEN q ELSE Tail(q)

enqueue(q, x) == IF Len(q) < QUEUE_CAP THEN Append(q, x) ELSE q

(* ---------------------------------------------------------------- bitmap *)
bitmap_range_get_first(mask, first, n) ==
    LET S == {i \in mask : i >= first /\ i < first + n}
    IN  IF S = {} THEN INVALID_PHYSICAL
        ELSE CHOOSE i \in S : \A j \in S : i <= j

(* ------------------------------------------------------------ timer heap *)
timer_check(heap) ==
    IF heap = {} THEN infinity
    ELSE LET m == CHOOSE i \in heap :
                    \A j \in heap : timer_expiry[i] <= timer_expiry[j]
         IN  timer_expiry[m]

TimerBefore(i, j) ==
    \/ timer_expiry[i] < timer_expiry[j]
    \/ timer_expiry[i] = timer_expiry[j] /\ i < j

RECURSIVE ExpiredInOrder(_)
ExpiredInOrder(S) ==
    IF S = {} THEN << >>
    ELSE LET m == CHOOSE i \in S : \A j \in S \ {i} : TimerBefore(i, j)
         IN  << <<"timer", m>> >> \o ExpiredInOrder(S \ {m})

Expired(heap, here) == {i \in heap : timer_expiry[i] <= here}

RECURSIVE SumOver(_, _)
SumOver(f, S) ==
    IF S = {} THEN 0
    ELSE LET c == CHOOSE x \in S : TRUE
         IN  f[c] + SumOver(f, S \ {c})

NoScan == [first |-> 0, n |-> 0, cpu |-> 0, pass |-> 0, t |-> INVALID_ADDRESS]


\* The state in which CPU 0 enters the run loop for the first time: the other
\* CPUs were started through new_cpu, which calls kernel_sleep.
Boot(lim, boot) ==
    /\ total_processors \in 1 .. BootCpus
    /\ now = 0
    /\ shutting_down = FALSE
    /\ kernel_lock = FALSE
    /\ runqueue = << >>
    /\ bhqueue = << >>
    /\ runloop_timers = 1 .. boot
    /\ timer_expiry \in {f \in [TimerIds -> -1 .. MaxExpiry] :
                           \A i \in TimerIds : IF i <= boot THEN f[i] >= 0
                                                ELSE f[i] = -1}
    /\ timer_overdue = [i \in TimerIds |-> FALSE]
    /\ idle_cpu_mask = {}
    /\ last_timer_update = 0
    /\ state = [c \in CPUS |-> IF Present(c) THEN cpu_kernel ELSE cpu_not_present]
    /\ have_kernel_lock = [c \in CPUS |-> FALSE]
    /\ ci_last_timer_update = [c \in CPUS |-> 0]
    /\ thread_queue = [c \in CPUS |-> << >>]
    /\ pc = [c \in CPUS |-> IF ~Present(c) THEN "absent"
                            ELSE IF c = 0 THEN "runloop" ELSE "sleep"]
    /\ t = [c \in CPUS |-> INVALID_ADDRESS]
    /\ timer_updated = [c \in CPUS |-> FALSE]
    /\ scan = [c \in CPUS |-> NoScan]
    /\ hw_timer = [c \in CPUS |-> 0]
    /\ irq = [c \in CPUS |-> {}]
    /\ next_id = 1
    /\ next_timer = boot + 1
    /\ executed = [i \in TaskIds |-> 0]
    /\ fired = << >>
    /\ iter_trace = [c \in CPUS |-> << >>]
    /\ limit = lim
    /\ lock_tried = [c \in CPUS |-> "none"]

\* Scheduling runs: tasks and threads, a clock that stands still, no timers.
InitSched == Boot([tasks |-> SchedTasks, timers |-> 0, time |-> 0], 0)

\* Timer runs: a running clock, few tasks, and timers, BootTimers of them
\* registered by the kernel's initialisation before the first run loop.
InitTimer ==
    Boot([tasks |-> TimerTasks, timers |-> MaxTimers, time |-> MaxTime],
         BootTimers)

(* ------------------------------------------------- steps outside the loop *)

\* The clock advances; a one-shot timer whose deadline is reached raises its
\* interrupt at the CPU that programmed it.
Tick ==
    /\ now < limit.time
    /\ now' = now + 1
    /\ irq' = [c \in CPUS |->
                 IF Present(c) /\ hw_timer[c] = now + 1
                 THEN irq[c] \cup {"timer"} ELSE irq[c]]
    /\ UNCHANGED << total_processors, shutting_down, kernel_lock, runqueue,
                    bhqueue, runloop_timers, timer_expiry, timer_overdue, idle_cpu_mask,
                    last_timer_update, state, have_kernel_lock,
                    ci_last_timer_update, thread_queue, pc, t, timer_updated,
                    scan, hw_timer, next_id, next_timer, executed, fired,
                    iter_trace, limit, lock_tried >>

\* A pending timer interrupt or wakeup IPI is taken by a CPU that runs a user
\* thread or sits in wait_for_interrupt: the handler runs in state
\* cpu_interrupt and leaves through the run loop.
interrupt(c) ==
    /\ pc[c] \in {"user", "halt"}
    /\ \E v \in irq[c] \ {"shutdown"} : irq' = [irq EXCEPT ![c] = @ \ {v}]
    /\ state' = [state EXCEPT ![c] = cpu_interrupt]
    /\ pc' = [pc EXCEPT ![c] = "runloop"]
    /\ UNCHANGED << total_processors, now, shutting_down, kernel_lock, runqueue,
                    bhqueue, runloop_timers, timer_expiry, timer_overdue, idle_cpu_mask,
                    last_timer_update, have_kernel_lock, ci_last_timer_update,
                    thread_queue, t, timer_updated, scan, hw_timer, next_id,
                    next_timer, executed, fired, iter_trace, limit, lock_tried >>

\* A device interrupt: its handler pushes a completion onto bhqueue, or has
\* nothing to defer, and leaves through the run loop.
device_interrupt(c) ==
    /\ pc[c] \in {"user", "halt"}
    /\ \/ /\ next_id <= limit.tasks
          /\ bhqueue' = enqueue(bhqueue, <<"bh", next_id>>)
          /\ next_id' = next_id + 1
       \/ UNCHANGED << bhqueue, next_id >>
    /\ state' = [state EXCEPT ![c] = cpu_interrupt]
    /\ pc' = [pc EXCEPT ![c] = "runloop"]
    /\ UNCHANGED << total_processors, now, shutting_down, kernel_lock, runqueue,
                    runloop_timers, timer_expiry, timer_overdue, idle_cpu_mask,
                    last_timer_update, have_kernel_lock, ci_last_timer_update,
                    thread_queue, t, timer_updated, scan, hw_timer, irq,
                    next_timer, executed, fired, iter_trace, limit, lock_tried >>

\* The handler of shutdown_vector: machine_halt(), which does not return.
global_shutdown(c) ==
    /\ pc[c] \in {"user", "halt"}
    /\ "shutdown" \in irq[c]
    /\ irq' = [irq EXCEPT ![c] = @ \ {"shutdown"}]
    /\ state' = [state EXCEPT ![c] = cpu_interrupt]
    /\ pc' = [pc EXCEPT ![c] = "machine_halt"]
    /\ UNCHANGED << total_processors, now, shutting_down, kernel_lock, runqueue,
                    bhqueue, runloop_timers, timer_expiry, timer_overdue,
                    idle_cpu_mask, last_timer_update, have_kernel_lock,
                    ci_last_timer_update, thread_queue, t, timer_updated, scan,
                    hw_timer, next_id, next_timer, executed, fired, iter_trace,
                    limit, lock_tried >>

\* A kern_register_timer that hands register_timer the opposite of absolute.
kern_register_timer_flipped(val, absolute) ==
    /\ next_timer <= limit.timers
    /\ timer_expiry' = [timer_expiry EXCEPT
                          ![next_timer] = IF absolute THEN now + val ELSE val]
    /\ timer_overdue' = [timer_overdue EXCEPT
                           ![next_timer] = absolute /\ val < now]
    /\ runloop_timers' = runloop_timers \cup {next_timer}
    /\ next_timer' = next_timer + 1

\* register_timer on runloop_timers.
kern_register_timer(val, absolute) ==
    /\ next_timer <= limit.timers
    /\ timer_expiry' = [timer_expiry EXCEPT
                          ![next_timer] = IF absolute THEN val ELSE now + val]
    /\ timer_overdue' = [timer_overdue EXCEPT
                           ![next_timer] = absolute /\ val < now]
    /\ runloop_timers' = runloop_timers \cup {next_timer}
    /\ next_timer' = next_timer + 1

\* A thread made runnable on the CPU that runs the waker.
wake_thread(c) ==
    /\ next_id <= limit.tasks
    /\ thread_queue' = [thread_queue EXCEPT
                          ![c] = enqueue(@, <<"thread", next_id>>)]
    /\ next_id' = next_id + 1

(* --------------------------------------------------------- kernel lock *)

\* kern_lock, first half: spin_lock succeeds once the lock is free.
kern_lock_spin(c) ==
    /\ pc[c] = "kern_lock"
    /\ state[c] = cpu_kernel
    /\ ~kernel_lock
    /\ kernel_lock' = TRUE
    /\ pc' = [pc EXCEPT ![c] = "kern_lock_own"]
    /\ UNCHANGED << total_processors, now, shutting_down, runqueue, bhqueue,
                    runloop_timers, timer_expiry, timer_overdue, idle_cpu_mask,
                    last_timer_update, state, have_kernel_lock,
                    ci_last_timer_update, thread_queue, t, timer_updated, scan,
                    hw_timer, irq, next_id, next_timer, executed, fired,
                    iter_trace, limit, lock_tried >>

\* kern_lock, second half: ci->have_kernel_lock = true.
kern_lock_own(c) ==
    /\ pc[c] = "kern_lock_own"
    /\ have_kernel_lock' = [have_kernel_lock EXCEPT ![c] = TRUE]
    /\ pc' = [pc EXCEPT ![c] = "syscall"]
    /\ UNCHANGED << total_processors, now, shutting_down, kernel_lock, runqueue,
                    bhqueue, runloop_timers, timer_expiry, timer_overdue, idle_cpu_mask,
                    last_timer_update, state, ci_last_timer_update,
                    thread_queue, t, timer_updated, scan, hw_timer, irq,
                    next_id, next_timer, executed, fired, iter_trace,
                    limit, lock_tried >>

\* A kern_try_lock that does not look at what spin_try returned.
kern_try_lock_unchecked == TRUE

\* kern_try_lock: TRUE when spin_try took the lock.
kern_try_lock_taken == ~kernel_lock

\* kern_unlock, first half: ci->have_kernel_lock = false.
kern_unlock_flag(c, from, to) ==
    /\ pc[c] = from
    /\ have_kernel_lock' = [have_kernel_lock EXCEPT ![c] = FALSE]
    /\ pc' = [pc EXCEPT ![c] = to]
    /\ UNCHANGED << total_processors, now, shutting_down, kernel_lock, runqueue,
                    bhqueue, runloop_timers, timer_expiry, timer_overdue, idle_cpu_mask,
                    last_timer_update, state, ci_last_timer_update,
                    thread_queue, t, timer_updated, scan, hw_timer, irq,
                    next_id, next_timer, executed, fired, iter_trace, limit, lock_tried >>

\* kern_unlock, second half: spin_unlock.
kern_unlock_release(c, from, to) ==
    /\ pc[c] = from
    /\ kernel_lock' = FALSE
    /\ pc' = [pc EXCEPT ![c] = to]
    /\ UNCHANGED << total_processors, now, shutting_down, runqueue, bhqueue,
                    runloop_timers, timer_expiry, timer_overdue, idle_cpu_mask,
                    last_timer_update, state, have_kernel_lock,
                    ci_last_timer_update, thread_queue, t, timer_updated, scan,
                    hw_timer, irq, next_id, next_timer, executed, fired,
                    iter_trace, limit, lock_tried >>

(* ---------------------------------------------- a thread's system call *)

\* The running thread enters the kernel and takes the kernel lock.
syscall_enter(c) ==
    /\ pc[c] = "user"
    /\ state' = [state EXCEPT ![c] = cpu_kernel]
    /\ pc' = [pc EXCEPT ![c] = "kern_lock"]
    /\ UNCHANGED << total_processors, now, shutting_down, kernel_lock, runqueue,
                    bhqueue, runloop_timers, timer_expiry, timer_overdue, idle_cpu_mask,
                    last_timer_update, have_kernel_lock, ci_last_timer_update,
                    thread_queue, t, timer_updated, scan, hw_timer, irq,
                    next_id, next_timer, executed, fired, iter_trace,
                    limit, lock_tried >>

\* Under the lock the call registers a timer, or not.
syscall_body(c) ==
    /\ pc[c] = "syscall"
    /\ pc' = [pc EXCEPT ![c] = "sys_unlock"]
    /\ \/ UNCHANGED << runloop_timers, timer_expiry, timer_overdue, next_timer >>
       \/ \E val \in 0 .. MaxExpiry, absolute \in BOOLEAN :
              kern_register_timer(val, absolute)
    /\ UNCHANGED << total_processors, now, shutting_down, kernel_lock, runqueue,
                    bhqueue, idle_cpu_mask, last_timer_update, state,
                    have_kernel_lock, ci_last_timer_update, thread_queue, t,
                    timer_updated, scan, hw_timer, irq, next_id, executed,
                    fired, iter_trace, limit, lock_tried >>

\* Under the lock the call starts the shutdown: it sets shutting_down and
\* broadcasts the shutdown IPI to the other CPUs, then leaves the kernel
\* through the run loop like any other call.
kernel_shutdown(c) ==
    /\ pc[c] = "syscall"
    /\ ~shutting_down
    /\ shutting_down' = TRUE
    /\ irq' = [d \in CPUS |-> IF Present(d) /\ d # c
                              THEN irq[d] \cup {"shutdown"} ELSE irq[d]]
    /\ pc' = [pc EXCEPT ![c] = "sys_unlock"]
    /\ UNCHANGED << total_processors, now, kernel_lock, runqueue, bhqueue,
                    runloop_timers, timer_expiry, timer_overdue, idle_cpu_mask,
                    last_timer_update, state, have_kernel_lock,
                    ci_last_timer_update, thread_queue, t, timer_updated, scan,
                    hw_timer, next_id, next_timer, executed, fired, iter_trace,
                    limit, lock_tried >>

syscall_unlock_flag(c) == kern_unlock_flag(c, "sys_unlock", "sys_unlock2")

\* The call is over; the thread blocks and the CPU goes back to the run loop.
syscall_unlock_release(c) == kern_unlock_release(c, "sys_unlock2", "runloop")

(* ----------------------------------------------------------- the run loop *)

\* History: the classes of work the current iteration has run, in order.
Traced(c, kind) ==
    IF Len(iter_trace[c]) > 0 /\ iter_trace[c][Len(iter_trace[c])] = kind
    THEN iter_trace
    ELSE [iter_trace EXCEPT ![c] = Append(@, kind)]

\* A run loop entry that leaves ci->state as the interrupt handler set it.
runloop_entry_keeps_state(c) ==
    /\ pc[c] = "runloop"
    /\ timer_updated' = [timer_updated EXCEPT ![c] = FALSE]
    /\ t' = [t EXCEPT ![c] = INVALID_ADDRESS]
    /\ iter_trace' = [iter_trace EXCEPT ![c] = << >>]
    /\ lock_tried' = [lock_tried EXCEPT ![c] = "none"]
    /\ pc' = [pc EXCEPT ![c] = "bh"]
    /\ UNCHANGED << total_processors, now, shutting_down, kernel_lock, runqueue,
                    bhqueue, runloop_timers, timer_expiry, timer_overdue,
                    idle_cpu_mask, last_timer_update, state, have_kernel_lock,
                    ci_last_timer_update, thread_queue, scan, hw_timer, irq,
                    next_id, next_timer, executed, fired, limit >>

\* runloop_internal, entry: ci->state = cpu_kernel.
runloop_entry(c) ==
    /\ pc[c] = "runloop"
    /\ state' = [state EXCEPT ![c] = cpu_kernel]
    /\ timer_updated' = [timer_updated EXCEPT ![c] = FALSE]
    /\ t' = [t EXCEPT ![c] = INVALID_ADDRESS]
    /\ iter_trace' = [iter_trace EXCEPT ![c] = << >>]
    /\ lock_tried' = [lock_tried EXCEPT ![c] = "none"]
    /\ pc' = [pc EXCEPT ![c] = "bh"]
    /\ UNCHANGED << total_processors, now, shutting_down, kernel_lock, runqueue,
                    bhqueue, runloop_timers, timer_expiry, timer_overdue, idle_cpu_mask,
                    last_timer_update, have_kernel_lock, ci_last_timer_update,
                    thread_queue, scan, hw_timer, irq, next_id, next_timer,
                    executed, fired, limit >>

\* A run loop that runs one bottom-half task per iteration.
runloop_bh_once(c) ==
    /\ pc[c] = "bh"
    /\ pc' = [pc EXCEPT ![c] = "try_lock"]
    /\ IF queue_empty(bhqueue)
       THEN UNCHANGED << bhqueue, executed, iter_trace >>
       ELSE /\ bhqueue' = dequeue_rest(bhqueue)
            /\ executed' = [executed EXCEPT ![queue_peek(bhqueue)[2]] = @ + 1]
            /\ iter_trace' = Traced(c, "bh")
    /\ UNCHANGED << total_processors, now, shutting_down, kernel_lock,
                    runloop_timers, timer_expiry, timer_overdue, idle_cpu_mask,
                    last_timer_update, state, have_kernel_lock,
                    ci_last_timer_update, t, timer_updated, scan, hw_timer,
                    irq, next_timer, fired, limit, lock_tried, thread_queue,
                    next_id, runqueue >>

\* while ((t = dequeue(bhqueue)) != INVALID_ADDRESS) run_thunk(t);
\* the completion wakes a thread, defers work to runqueue, or does neither.
runloop_bh(c) ==
    /\ pc[c] = "bh"
    /\ IF queue_empty(bhqueue)
       THEN /\ pc' = [pc EXCEPT ![c] = "try_lock"]
            /\ UNCHANGED << bhqueue, executed, iter_trace, thread_queue,
                            next_id, runqueue >>
       ELSE /\ bhqueue' = dequeue_rest(bhqueue)
            /\ executed' = [executed EXCEPT ![queue_peek(bhqueue)[2]] = @ + 1]
            /\ iter_trace' = Traced(c, "bh")
            /\ pc' = pc
            /\ \/ UNCHANGED << thread_queue, next_id, runqueue >>
               \/ wake_thread(c) /\ UNCHANGED runqueue
               \/ /\ next_id <= limit.tasks
                  /\ runqueue' = enqueue(runqueue, <<"rq", next_id>>)
                  /\ next_id' = next_id + 1
                  /\ UNCHANGED thread_queue
    /\ UNCHANGED << total_processors, now, shutting_down, kernel_lock,
                    runloop_timers, timer_expiry, timer_overdue, idle_cpu_mask,
                    last_timer_update, state, have_kernel_lock,
                    ci_last_timer_update, t, timer_updated, scan, hw_timer,
                    irq, next_timer, fired, limit, lock_tried >>

\* A run loop that goes on to the locked work whatever kern_try_lock returned.
runloop_try_lock_barges(c) ==
    /\ pc[c] = "try_lock"
    /\ IF kern_try_lock_taken
       THEN /\ kernel_lock' = TRUE
            /\ have_kernel_lock' = [have_kernel_lock EXCEPT ![c] = TRUE]
            /\ lock_tried' = [lock_tried EXCEPT ![c] = "got"]
       ELSE /\ lock_tried' = [lock_tried EXCEPT ![c] = "failed"]
            /\ UNCHANGED << kernel_lock, have_kernel_lock >>
    /\ state' = [state EXCEPT ![c] = cpu_kernel]
    /\ pc' = [pc EXCEPT ![c] = "timer_service"]
    /\ UNCHANGED << total_processors, now, shutting_down, runqueue, bhqueue,
                    runloop_timers, timer_expiry, timer_overdue, idle_cpu_mask,
                    last_timer_update, ci_last_timer_update, thread_queue, t,
                    timer_updated, scan, hw_timer, irq, next_id, next_timer,
                    executed, fired, iter_trace, limit >>

\* if (kern_try_lock()) { ci->state = cpu_kernel; ... }
runloop_try_lock(c) ==
    /\ pc[c] = "try_lock"
    /\ IF kern_try_lock_taken
       THEN /\ kernel_lock' = TRUE
            /\ have_kernel_lock' = [have_kernel_lock EXCEPT ![c] = TRUE]
            /\ state' = [state EXCEPT ![c] = cpu_kernel]
            /\ lock_tried' = [lock_tried EXCEPT ![c] = "got"]
            /\ pc' = [pc EXCEPT ![c] = "timer_service"]
       ELSE /\ pc' = [pc EXCEPT ![c] = "select"]
            /\ lock_tried' = [lock_tried EXCEPT ![c] = "failed"]
            /\ UNCHANGED << kernel_lock, have_kernel_lock, state >>
    /\ UNCHANGED << total_processors, now, shutting_down, runqueue, bhqueue,
                    runloop_timers, timer_expiry, timer_overdue, idle_cpu_mask,
                    last_timer_update, ci_last_timer_update, thread_queue, t,
                    timer_updated, scan, hw_timer, irq, next_id, next_timer,
                    executed, fired, iter_trace, limit >>

\* timer_service(runloop_timers, now): every timer whose deadline has passed
\* leaves the heap, in deadline order, and its handler goes onto runqueue.
timer_service(c) ==
    /\ pc[c] = "timer_service"
    /\ runqueue' = runqueue \o ExpiredInOrder(Expired(runloop_timers, now))
    /\ runloop_timers' = runloop_timers \ Expired(runloop_timers, now)
    /\ pc' = [pc EXCEPT ![c] = "runq"]
    /\ UNCHANGED << total_processors, now, shutting_down, kernel_lock, bhqueue,
                    timer_expiry, timer_overdue, idle_cpu_mask, last_timer_update, state,
                    have_kernel_lock, ci_last_timer_update, thread_queue, t,
                    timer_updated, scan, hw_timer, irq, next_id, next_timer,
                    executed, fired, iter_trace, limit, lock_tried >>

\* while ((t = dequeue(runqueue)) != INVALID_ADDRESS) run_thunk(t);
\* a timer handler wakes a thread or not; deferred work registers a timer or not.
runloop_runqueue(c) ==
    /\ pc[c] = "runq"
    /\ IF queue_empty(runqueue)
       THEN /\ pc' = [pc EXCEPT ![c] = "update_timer"]
            /\ UNCHANGED << runqueue, executed, fired, iter_trace, thread_queue,
                            next_id, runloop_timers, timer_expiry, timer_overdue, next_timer >>
       ELSE /\ runqueue' = dequeue_rest(runqueue)
            /\ iter_trace' = Traced(c, "rq")
            /\ pc' = pc
            /\ IF queue_peek(runqueue)[1] = "timer"
               THEN /\ fired' = Append(fired, queue_peek(runqueue)[2])
                    /\ UNCHANGED << executed, runloop_timers, timer_expiry, timer_overdue,
                                    next_timer >>
                    /\ \/ UNCHANGED << thread_queue, next_id >>
                       \/ wake_thread(c)
               ELSE /\ executed' = [executed EXCEPT
                                      ![queue_peek(runqueue)[2]] = @ + 1]
                    /\ UNCHANGED << fired, thread_queue, next_id >>
                    /\ \/ UNCHANGED << runloop_timers, timer_expiry, timer_overdue, next_timer >>
                       \/ \E val \in 0 .. MaxExpiry, absolute \in BOOLEAN :
                              kern_register_timer(val, absolute)
    /\ UNCHANGED << total_processors, now, shutting_down, kernel_lock, bhqueue,
                    idle_cpu_mask, last_timer_update, state, have_kernel_lock,
                    ci_last_timer_update, t, timer_updated, scan, hw_timer,
                    irq, limit, lock_tried >>

MIN(a, b) == IF a < b THEN a ELSE b

\* A timeout that is not capped at runloop_timer_max.
update_timer_timeout_uncapped(delta) ==
    IF delta > runloop_timer_min THEN delta ELSE runloop_timer_min

\* timeout = delta > min ? MIN(delta, max) : min
update_timer_timeout(delta) ==
    IF delta > runloop_timer_min
    THEN MIN(delta, runloop_timer_max)
    ELSE runloop_timer_min

\* An update_timer that records the deadline it was asked for.
update_timer_deadline_asked(next, timeout, delta) == next

\* last_timer_update = current_cpu()->last_timer_update = next + timeout - delta
update_timer_deadline(next, timeout, delta) == next + timeout - delta

\* An update_timer that returns early whenever next == last_timer_update.
update_timer_skips_at_zero(next) == next = last_timer_update

\* if (last_timer_update && next == last_timer_update) return false;
update_timer_skips(next) == last_timer_update # 0 /\ next = last_timer_update

\* An update_timer that records the deadline in the cpuinfo of every CPU.
update_timer_all_cpus(c) ==
    /\ pc[c] = "update_timer"
    /\ LET next == timer_check(runloop_timers)
           delta == next - now
           timeout == update_timer_timeout(delta)
       IN  IF update_timer_skips(next)
           THEN /\ timer_updated' = [timer_updated EXCEPT ![c] = FALSE]
                /\ UNCHANGED << last_timer_update, ci_last_timer_update,
                                hw_timer >>
           ELSE /\ last_timer_update' = update_timer_deadline(next, timeout, delta)
                /\ ci_last_timer_update' =
                      [d \in CPUS |-> update_timer_deadline(next, timeout, delta)]
                /\ hw_timer' = [hw_timer EXCEPT ![c] = now + timeout]
                /\ timer_updated' = [timer_updated EXCEPT ![c] = TRUE]
    /\ pc' = [pc EXCEPT ![c] = "unlock"]
    /\ UNCHANGED << total_processors, now, shutting_down, kernel_lock, runqueue,
                    bhqueue, runloop_timers, timer_expiry, timer_overdue, idle_cpu_mask, state,
                    have_kernel_lock, thread_queue, t, scan, irq, next_id,
                    next_timer, executed, fired, iter_trace, limit, lock_tried >>

\* mm_service(); timer_updated = update_timer();
update_timer(c) ==
    /\ pc[c] = "update_timer"
    /\ LET next == timer_check(runloop_timers)
           delta == next - now
           timeout == update_timer_timeout(delta)
       IN  IF update_timer_skips(next)
           THEN /\ timer_updated' = [timer_updated EXCEPT ![c] = FALSE]
                /\ UNCHANGED << last_timer_update, ci_last_timer_update,
                                hw_timer >>
           ELSE /\ last_timer_update' = update_timer_deadline(next, timeout, delta)
                /\ ci_last_timer_update' = [ci_last_timer_update EXCEPT
                      ![c] = update_timer_deadline(next, timeout, delta)]
                /\ hw_timer' = [hw_timer EXCEPT ![c] = now + timeout]
                /\ timer_updated' = [timer_updated EXCEPT ![c] = TRUE]
    /\ pc' = [pc EXCEPT ![c] = "unlock"]
    /\ UNCHANGED << total_processors, now, shutting_down, kernel_lock, runqueue,
                    bhqueue, runloop_timers, timer_expiry, timer_overdue, idle_cpu_mask, state,
                    have_kernel_lock, thread_queue, t, scan, irq, next_id,
                    next_timer, executed, fired, iter_trace, limit, lock_tried >>

\* A run loop that goes on to pick a thread without calling kern_unlock.
runloop_keeps_lock(c) ==
    /\ pc[c] = "unlock"
    /\ pc' = [pc EXCEPT ![c] = "select"]
    /\ UNCHANGED << total_processors, now, shutting_down, kernel_lock, runqueue,
                    bhqueue, runloop_timers, timer_expiry, timer_overdue,
                    idle_cpu_mask, last_timer_update, state, have_kernel_lock,
                    ci_last_timer_update, thread_queue, t, timer_updated, scan,
                    hw_timer, irq, next_id, next_timer, executed, fired,
                    iter_trace, limit, lock_tried >>

\* kern_unlock();
runloop_unlock_flag(c) == kern_unlock_flag(c, "unlock", "unlock2")

\* A run loop that drains bhqueue once more after it gave the lock back.
runloop_unlock_then_bh(c) == kern_unlock_release(c, "unlock2", "bh")

runloop_unlock_release(c) == kern_unlock_release(c, "unlock2", "select")

(* ------------------------------------------------- phase 3: pick a thread *)

\* The ranges runloop_internal hands to the two migrate calls: CPUs above
\* the caller first, then CPUs below it.
HasPass(c, p) ==
    \/ p = 1 /\ c + 1 < total_processors
    \/ p = 2 /\ c > 0

PassRange(c, p, held) ==
    IF p = 1
    THEN [first |-> c + 1, n |-> total_processors - c - 1, cpu |-> 0,
          pass |-> 1, t |-> held]
    ELSE [first |-> 0, n |-> c, cpu |-> 0, pass |-> 2, t |-> held]

\* Where the caller goes once the call for pass p has returned.
AfterPass(c, p, loop, done) ==
    IF p < 1 /\ HasPass(c, 1) THEN [pc |-> loop, scan |-> PassRange(c, 1, INVALID_ADDRESS)]
    ELSE IF p < 2 /\ HasPass(c, 2) THEN [pc |-> loop, scan |-> PassRange(c, 2, INVALID_ADDRESS)]
    ELSE [pc |-> done,
          scan |-> [first |-> 0, n |-> 0, cpu |-> c + 1, pass |-> 3,
                    t |-> INVALID_ADDRESS]]

\* A scan that goes on from the CPU it found instead of the one after it.
AdvanceToFound(sc) ==
    [sc EXCEPT !.n = sc.n - (sc.cpu - sc.first), !.first = sc.cpu]

\* ncpus -= cpu - first_cpu + 1; first_cpu = cpu + 1;
Advance(sc) ==
    [sc EXCEPT !.n = sc.n - (sc.cpu - sc.first + 1), !.first = sc.cpu + 1]

\* A run loop that picks a thread whether or not the kernel is shutting down.
runloop_select_regardless(c) ==
    /\ pc[c] = "select"
    /\ t' = [t EXCEPT ![c] = queue_peek(thread_queue[c])]
    /\ thread_queue' = [thread_queue EXCEPT ![c] = dequeue_rest(@)]
    /\ LET nxt == IF queue_empty(thread_queue[c])
                  THEN AfterPass(c, 0, "mts_scan", "fallback")
                  ELSE AfterPass(c, 0, "mfs_scan", "phase4")
       IN  /\ pc' = [pc EXCEPT ![c] = nxt.pc]
           /\ scan' = [scan EXCEPT ![c] = nxt.scan]
    /\ UNCHANGED << total_processors, now, shutting_down, kernel_lock, runqueue,
                    bhqueue, runloop_timers, timer_expiry, timer_overdue,
                    idle_cpu_mask, last_timer_update, state, have_kernel_lock,
                    ci_last_timer_update, timer_updated, hw_timer, irq, next_id,
                    next_timer, executed, fired, iter_trace, limit,
                    lock_tried >>

\* if (!shutting_down) { t = dequeue(ci->thread_queue); ... }
runloop_select(c) ==
    /\ pc[c] = "select"
    /\ IF shutting_down
       THEN /\ pc' = [pc EXCEPT ![c] = "sleep"]
            /\ UNCHANGED << t, thread_queue, scan >>
       ELSE /\ t' = [t EXCEPT ![c] = queue_peek(thread_queue[c])]
            /\ thread_queue' = [thread_queue EXCEPT ![c] = dequeue_rest(@)]
            /\ LET nxt == IF queue_empty(thread_queue[c])
                          THEN AfterPass(c, 0, "mts_scan", "fallback")
                          ELSE AfterPass(c, 0, "mfs_scan", "phase4")
               IN  /\ pc' = [pc EXCEPT ![c] = nxt.pc]
                   /\ scan' = [scan EXCEPT ![c] = nxt.scan]
    /\ UNCHANGED << total_processors, now, shutting_down, kernel_lock, runqueue,
                    bhqueue, runloop_timers, timer_expiry, timer_overdue, idle_cpu_mask,
                    last_timer_update, state, have_kernel_lock,
                    ci_last_timer_update, timer_updated, hw_timer, irq, next_id,
                    next_timer, executed, fired, iter_trace, limit, lock_tried >>

\* The loop test shared by migrate_to_self and migrate_from_self:
\* (ncpus > 0) && ((cpu = bitmap_range_get_first(...)) != INVALID_PHYSICAL)
ScanFound(sc) ==
    IF sc.n > 0
    THEN bitmap_range_get_first(idle_cpu_mask, sc.first, sc.n)
    ELSE INVALID_PHYSICAL

\* migrate_to_self: the loop test; on exit the next call, or the fallback.
migrate_to_self_scan(c) ==
    /\ pc[c] = "mts_scan"
    /\ IF ScanFound(scan[c]) = INVALID_PHYSICAL
       THEN LET nxt == AfterPass(c, scan[c].pass, "mts_scan",
                                 IF t[c] = INVALID_ADDRESS
                                 THEN "fallback" ELSE "phase4")
            IN  /\ pc' = [pc EXCEPT ![c] = nxt.pc]
                /\ scan' = [scan EXCEPT ![c] = nxt.scan]
       ELSE /\ scan' = [scan EXCEPT ![c].cpu = ScanFound(scan[c])]
            /\ pc' = [pc EXCEPT ![c] = IF t[c] = INVALID_ADDRESS
                                       THEN "mts_dequeue" ELSE "mts_test"]
    /\ UNCHANGED << total_processors, now, shutting_down, kernel_lock, runqueue,
                    bhqueue, runloop_timers, timer_expiry, timer_overdue, idle_cpu_mask,
                    last_timer_update, state, have_kernel_lock,
                    ci_last_timer_update, thread_queue, t, timer_updated,
                    hw_timer, irq, next_id, next_timer, executed, fired,
                    iter_trace, limit, lock_tried >>

\* if (t == INVALID_ADDRESS) t = dequeue(cpui->thread_queue);
migrate_to_self_dequeue(c) ==
    /\ pc[c] = "mts_dequeue"
    /\ t' = [t EXCEPT ![c] = queue_peek(thread_queue[scan[c].cpu])]
    /\ thread_queue' = [thread_queue EXCEPT ![scan[c].cpu] = dequeue_rest(@)]
    /\ IF queue_empty(thread_queue[scan[c].cpu])
       THEN /\ scan' = [scan EXCEPT ![c] = Advance(@)]
            /\ pc' = [pc EXCEPT ![c] = "mts_scan"]
       ELSE /\ pc' = [pc EXCEPT ![c] = "mts_test"]
            /\ UNCHANGED scan
    /\ UNCHANGED << total_processors, now, shutting_down, kernel_lock, runqueue,
                    bhqueue, runloop_timers, timer_expiry, timer_overdue, idle_cpu_mask,
                    last_timer_update, state, have_kernel_lock,
                    ci_last_timer_update, timer_updated, hw_timer, irq, next_id,
                    next_timer, executed, fired, iter_trace, limit, lock_tried >>

\* A migrate_to_self that wakes every idle CPU it looked at.
migrate_to_self_test_wakes(c) ==
    /\ pc[c] = "mts_test"
    /\ pc' = [pc EXCEPT ![c] = "mts_wakeup"]
    /\ UNCHANGED scan
    /\ UNCHANGED << total_processors, now, shutting_down, kernel_lock, runqueue,
                    bhqueue, runloop_timers, timer_expiry, timer_overdue,
                    idle_cpu_mask, last_timer_update, state, have_kernel_lock,
                    ci_last_timer_update, thread_queue, t, timer_updated,
                    hw_timer, irq, next_id, next_timer, executed, fired,
                    iter_trace, limit, lock_tried >>

\* if ((t != INVALID_ADDRESS) && !queue_empty(cpui->thread_queue)) wakeup_cpu(cpu);
migrate_to_self_test(c) ==
    /\ pc[c] = "mts_test"
    /\ IF ~queue_empty(thread_queue[scan[c].cpu])
       THEN /\ pc' = [pc EXCEPT ![c] = "mts_wakeup"]
            /\ UNCHANGED scan
       ELSE /\ scan' = [scan EXCEPT ![c] = Advance(@)]
            /\ pc' = [pc EXCEPT ![c] = "mts_scan"]
    /\ UNCHANGED << total_processors, now, shutting_down, kernel_lock, runqueue,
                    bhqueue, runloop_timers, timer_expiry, timer_overdue, idle_cpu_mask,
                    last_timer_update, state, have_kernel_lock,
                    ci_last_timer_update, thread_queue, t, timer_updated,
                    hw_timer, irq, next_id, next_timer, executed, fired,
                    iter_trace, limit, lock_tried >>

\* A wakeup_or_interrupt_cpu_all that passes over the CPUs whose bit is clear.
wakeup_or_interrupt_cpu_all_if_idle(c) ==
    /\ pc[c] = "wake_all"
    /\ IF scan[c].cpu >= total_processors
       THEN /\ pc' = [pc EXCEPT ![c] = "sys_unlock"]
            /\ scan' = [scan EXCEPT ![c] = NoScan]
            /\ UNCHANGED idle_cpu_mask
       ELSE IF scan[c].cpu # c /\ scan[c].cpu \in idle_cpu_mask
       THEN /\ idle_cpu_mask' = idle_cpu_mask \ {scan[c].cpu}
            /\ pc' = [pc EXCEPT ![c] = "wake_all_ipi"]
            /\ UNCHANGED scan
       ELSE /\ scan' = [scan EXCEPT ![c].cpu = @ + 1]
            /\ UNCHANGED << idle_cpu_mask, pc >>
    /\ UNCHANGED irq
    /\ UNCHANGED << total_processors, now, shutting_down, kernel_lock, runqueue,
                    bhqueue, runloop_timers, timer_expiry, timer_overdue,
                    last_timer_update, state, have_kernel_lock,
                    ci_last_timer_update, thread_queue, t, timer_updated,
                    hw_timer, next_id, next_timer, executed, fired, iter_trace,
                    limit, lock_tried >>

\* wakeup_or_interrupt_cpu_all: the loop over i, which is kept in scan.cpu;
\* for i other than the caller, bitmap_set_atomic(idle_cpu_mask, i, 0)
wakeup_or_interrupt_cpu_all_clear(c) ==
    /\ pc[c] = "wake_all"
    /\ IF scan[c].cpu >= total_processors
       THEN /\ pc' = [pc EXCEPT ![c] = "sys_unlock"]
            /\ scan' = [scan EXCEPT ![c] = NoScan]
            /\ UNCHANGED idle_cpu_mask
       ELSE IF scan[c].cpu # c
       THEN /\ idle_cpu_mask' = idle_cpu_mask \ {scan[c].cpu}
            /\ pc' = [pc EXCEPT ![c] = "wake_all_ipi"]
            /\ UNCHANGED scan
       ELSE /\ scan' = [scan EXCEPT ![c].cpu = @ + 1]
            /\ UNCHANGED << idle_cpu_mask, pc >>
    /\ UNCHANGED irq
    /\ UNCHANGED << total_processors, now, shutting_down, kernel_lock, runqueue,
                    bhqueue, runloop_timers, timer_expiry, timer_overdue,
                    last_timer_update, state, have_kernel_lock,
                    ci_last_timer_update, thread_queue, t, timer_updated,
                    hw_timer, next_id, next_timer, executed, fired, iter_trace,
                    limit, lock_tried >>

\* wakeup_or_interrupt_cpu_all: send_ipi(i, wakeup_vector)
wakeup_or_interrupt_cpu_all_ipi(c) ==
    /\ pc[c] = "wake_all_ipi"
    /\ irq' = [irq EXCEPT ![scan[c].cpu] = @ \cup {"ipi"}]
    /\ scan' = [scan EXCEPT ![c].cpu = @ + 1]
    /\ pc' = [pc EXCEPT ![c] = "wake_all"]
    /\ UNCHANGED idle_cpu_mask
    /\ UNCHANGED << total_processors, now, shutting_down, kernel_lock, runqueue,
                    bhqueue, runloop_timers, timer_expiry, timer_overdue,
                    last_timer_update, state, have_kernel_lock,
                    ci_last_timer_update, thread_queue, t, timer_updated,
                    hw_timer, next_id, next_timer, executed, fired, iter_trace,
                    limit, lock_tried >>

\* A wakeup_cpu that clears the bit and sends the IPI whatever the bit was.
wakeup_cpu_test_sends(c, from, send, back) ==
    /\ pc[c] = from
    /\ idle_cpu_mask' = idle_cpu_mask \ {scan[c].cpu}
    /\ pc' = [pc EXCEPT ![c] = send]
    /\ UNCHANGED << total_processors, now, shutting_down, kernel_lock, runqueue,
                    bhqueue, runloop_timers, timer_expiry, timer_overdue,
                    last_timer_update, state, have_kernel_lock,
                    ci_last_timer_update, thread_queue, t, timer_updated, scan,
                    hw_timer, irq, next_id, next_timer, executed, fired,
                    iter_trace, limit, lock_tried >>

\* wakeup_cpu: bitmap_test_and_set_atomic(idle_cpu_mask, cpu, 0)
wakeup_cpu_test(c, from, send, back) ==
    /\ pc[c] = from
    /\ IF scan[c].cpu \in idle_cpu_mask
       THEN /\ idle_cpu_mask' = idle_cpu_mask \ {scan[c].cpu}
            /\ pc' = [pc EXCEPT ![c] = send]
            /\ UNCHANGED scan
       ELSE /\ scan' = [scan EXCEPT ![c] = Advance(@)]
            /\ pc' = [pc EXCEPT ![c] = back]
            /\ UNCHANGED idle_cpu_mask
    /\ UNCHANGED << total_processors, now, shutting_down, kernel_lock, runqueue,
                    bhqueue, runloop_timers, timer_expiry, timer_overdue, last_timer_update,
                    state, have_kernel_lock, ci_last_timer_update, thread_queue,
                    t, timer_updated, hw_timer, irq, next_id, next_timer,
                    executed, fired, iter_trace, limit, lock_tried >>

\* wakeup_cpu: send_ipi(cpu, wakeup_vector)
wakeup_cpu_send(c, from, back) ==
    /\ pc[c] = from
    /\ irq' = [irq EXCEPT ![scan[c].cpu] = @ \cup {"ipi"}]
    /\ scan' = [scan EXCEPT ![c] = Advance(@)]
    /\ pc' = [pc EXCEPT ![c] = back]
    /\ UNCHANGED << total_processors, now, shutting_down, kernel_lock, runqueue,
                    bhqueue, runloop_timers, timer_expiry, timer_overdue, idle_cpu_mask,
                    last_timer_update, state, have_kernel_lock,
                    ci_last_timer_update, thread_queue, t, timer_updated,
                    hw_timer, next_id, next_timer, executed, fired, iter_trace,
                    limit, lock_tried >>

migrate_to_self_wakeup(c) == wakeup_cpu_test(c, "mts_wakeup", "mts_ipi", "mts_scan")

migrate_to_self_ipi(c) == wakeup_cpu_send(c, "mts_ipi", "mts_scan")

\* A fallback scan that does not look at the state of the CPU it robs.
fallback_scan_any_state(c) ==
    /\ pc[c] = "fallback"
    /\ LET k == IF scan[c].cpu = total_processors THEN 0 ELSE scan[c].cpu
       IN  IF k = c
           THEN /\ pc' = [pc EXCEPT ![c] = "phase4"]
                /\ UNCHANGED scan
           ELSE /\ pc' = [pc EXCEPT ![c] = "fallback_dequeue"]
                /\ scan' = [scan EXCEPT ![c].cpu = k]
    /\ UNCHANGED << total_processors, now, shutting_down, kernel_lock, runqueue,
                    bhqueue, runloop_timers, timer_expiry, timer_overdue,
                    idle_cpu_mask, last_timer_update, state, have_kernel_lock,
                    ci_last_timer_update, thread_queue, t, timer_updated,
                    hw_timer, irq, next_id, next_timer, executed, fired,
                    iter_trace, limit, lock_tried >>

\* for (u64 cpu = ci->id + 1; ; cpu++) { ... if (cpui->state == cpu_user) ...
fallback_scan(c) ==
    /\ pc[c] = "fallback"
    /\ LET k == IF scan[c].cpu = total_processors THEN 0 ELSE scan[c].cpu
       IN  IF k = c
           THEN /\ pc' = [pc EXCEPT ![c] = "phase4"]
                /\ UNCHANGED scan
           ELSE IF state[k] = cpu_user
           THEN /\ pc' = [pc EXCEPT ![c] = "fallback_dequeue"]
                /\ scan' = [scan EXCEPT ![c].cpu = k]
           ELSE /\ pc' = pc
                /\ scan' = [scan EXCEPT ![c].cpu = k + 1]
    /\ UNCHANGED << total_processors, now, shutting_down, kernel_lock, runqueue,
                    bhqueue, runloop_timers, timer_expiry, timer_overdue, idle_cpu_mask,
                    last_timer_update, state, have_kernel_lock,
                    ci_last_timer_update, thread_queue, t, timer_updated,
                    hw_timer, irq, next_id, next_timer, executed, fired,
                    iter_trace, limit, lock_tried >>

\* A fallback that reads the head of the victim's queue and leaves it queued.
fallback_peek(c) ==
    /\ pc[c] = "fallback_dequeue"
    /\ t' = [t EXCEPT ![c] = queue_peek(thread_queue[scan[c].cpu])]
    /\ IF queue_empty(thread_queue[scan[c].cpu])
       THEN /\ scan' = [scan EXCEPT ![c].cpu = @ + 1]
            /\ pc' = [pc EXCEPT ![c] = "fallback"]
       ELSE /\ pc' = [pc EXCEPT ![c] = "phase4"]
            /\ UNCHANGED scan
    /\ UNCHANGED << total_processors, now, shutting_down, kernel_lock, runqueue,
                    bhqueue, runloop_timers, timer_expiry, timer_overdue,
                    idle_cpu_mask, last_timer_update, state, have_kernel_lock,
                    ci_last_timer_update, thread_queue, timer_updated, hw_timer,
                    irq, next_id, next_timer, executed, fired, iter_trace,
                    limit, lock_tried >>

\* A fallback that takes the head of the victim's queue and drops the rest.
fallback_dequeue_drains(c) ==
    /\ pc[c] = "fallback_dequeue"
    /\ t' = [t EXCEPT ![c] = queue_peek(thread_queue[scan[c].cpu])]
    /\ thread_queue' = [thread_queue EXCEPT ![scan[c].cpu] = << >>]
    /\ IF queue_empty(thread_queue[scan[c].cpu])
       THEN /\ scan' = [scan EXCEPT ![c].cpu = @ + 1]
            /\ pc' = [pc EXCEPT ![c] = "fallback"]
       ELSE /\ pc' = [pc EXCEPT ![c] = "phase4"]
            /\ UNCHANGED scan
    /\ UNCHANGED << total_processors, now, shutting_down, kernel_lock, runqueue,
                    bhqueue, runloop_timers, timer_expiry, timer_overdue,
                    idle_cpu_mask, last_timer_update, state, have_kernel_lock,
                    ci_last_timer_update, timer_updated, hw_timer, irq, next_id,
                    next_timer, executed, fired, iter_trace, limit,
                    lock_tried >>

\* t = dequeue(cpui->thread_queue); if (t != INVALID_ADDRESS) break;
fallback_dequeue(c) ==
    /\ pc[c] = "fallback_dequeue"
    /\ t' = [t EXCEPT ![c] = queue_peek(thread_queue[scan[c].cpu])]
    /\ thread_queue' = [thread_queue EXCEPT ![scan[c].cpu] = dequeue_rest(@)]
    /\ IF queue_empty(thread_queue[scan[c].cpu])
       THEN /\ scan' = [scan EXCEPT ![c].cpu = @ + 1]
            /\ pc' = [pc EXCEPT ![c] = "fallback"]
       ELSE /\ pc' = [pc EXCEPT ![c] = "phase4"]
            /\ UNCHANGED scan
    /\ UNCHANGED << total_processors, now, shutting_down, kernel_lock, runqueue,
                    bhqueue, runloop_timers, timer_expiry, timer_overdue, idle_cpu_mask,
                    last_timer_update, state, have_kernel_lock,
                    ci_last_timer_update, timer_updated, hw_timer, irq, next_id,
                    next_timer, executed, fired, iter_trace, limit, lock_tried >>

\* migrate_from_self: the loop test; on exit the next call, or phase 4.
migrate_from_self_scan(c) ==
    /\ pc[c] = "mfs_scan"
    /\ IF ScanFound(scan[c]) = INVALID_PHYSICAL
       THEN LET nxt == AfterPass(c, scan[c].pass, "mfs_scan", "phase4")
            IN  /\ pc' = [pc EXCEPT ![c] = nxt.pc]
                /\ scan' = [scan EXCEPT ![c] = nxt.scan]
       ELSE /\ scan' = [scan EXCEPT ![c].cpu = ScanFound(scan[c])]
            /\ pc' = [pc EXCEPT ![c] = "mfs_test"]
    /\ UNCHANGED << total_processors, now, shutting_down, kernel_lock, runqueue,
                    bhqueue, runloop_timers, timer_expiry, timer_overdue, idle_cpu_mask,
                    last_timer_update, state, have_kernel_lock,
                    ci_last_timer_update, thread_queue, t, timer_updated,
                    hw_timer, irq, next_id, next_timer, executed, fired,
                    iter_trace, limit, lock_tried >>

\* A migrate_from_self that pushes a thread onto every idle CPU it finds.
migrate_from_self_test_pushes(c) ==
    /\ pc[c] = "mfs_test"
    /\ pc' = [pc EXCEPT ![c] = "mfs_dequeue"]
    /\ UNCHANGED scan
    /\ UNCHANGED << total_processors, now, shutting_down, kernel_lock, runqueue,
                    bhqueue, runloop_timers, timer_expiry, timer_overdue,
                    idle_cpu_mask, last_timer_update, state, have_kernel_lock,
                    ci_last_timer_update, thread_queue, t, timer_updated,
                    hw_timer, irq, next_id, next_timer, executed, fired,
                    iter_trace, limit, lock_tried >>

\* if (!queue_empty(cpui->thread_queue)) wakeup_cpu(cpu); else if (...)
migrate_from_self_test(c) ==
    /\ pc[c] = "mfs_test"
    /\ pc' = [pc EXCEPT ![c] = IF ~queue_empty(thread_queue[scan[c].cpu])
                               THEN "mfs_wakeup" ELSE "mfs_dequeue"]
    /\ UNCHANGED << total_processors, now, shutting_down, kernel_lock, runqueue,
                    bhqueue, runloop_timers, timer_expiry, timer_overdue, idle_cpu_mask,
                    last_timer_update, state, have_kernel_lock,
                    ci_last_timer_update, thread_queue, t, timer_updated, scan,
                    hw_timer, irq, next_id, next_timer, executed, fired,
                    iter_trace, limit, lock_tried >>

\* else if ((t = dequeue(ci->thread_queue)) != INVALID_ADDRESS)
migrate_from_self_dequeue(c) ==
    /\ pc[c] = "mfs_dequeue"
    /\ thread_queue' = [thread_queue EXCEPT ![c] = dequeue_rest(@)]
    /\ IF queue_empty(thread_queue[c])
       THEN /\ scan' = [scan EXCEPT ![c] = Advance(@)]
            /\ pc' = [pc EXCEPT ![c] = "mfs_scan"]
       ELSE /\ scan' = [scan EXCEPT ![c].t = queue_peek(thread_queue[c])]
            /\ pc' = [pc EXCEPT ![c] = "mfs_enqueue"]
    /\ UNCHANGED << total_processors, now, shutting_down, kernel_lock, runqueue,
                    bhqueue, runloop_timers, timer_expiry, timer_overdue, idle_cpu_mask,
                    last_timer_update, state, have_kernel_lock,
                    ci_last_timer_update, t, timer_updated, hw_timer, irq,
                    next_id, next_timer, executed, fired, iter_trace,
                    limit, lock_tried >>

\* A push whose enqueue fails, unnoticed, when another CPU has enqueued on
\* the target since the queue_empty test.
migrate_from_self_enqueue_if_empty(c) ==
    /\ pc[c] = "mfs_enqueue"
    /\ thread_queue' = [thread_queue EXCEPT
                          ![scan[c].cpu] = IF queue_empty(@)
                                           THEN enqueue(@, scan[c].t) ELSE @]
    /\ scan' = [scan EXCEPT ![c].t = INVALID_ADDRESS]
    /\ pc' = [pc EXCEPT ![c] = "mfs_wakeup"]
    /\ UNCHANGED << total_processors, now, shutting_down, kernel_lock, runqueue,
                    bhqueue, runloop_timers, timer_expiry, timer_overdue, idle_cpu_mask,
                    last_timer_update, state, have_kernel_lock,
                    ci_last_timer_update, t, timer_updated, hw_timer, irq,
                    next_id, next_timer, executed, fired, iter_trace,
                    limit, lock_tried >>

\* enqueue(cpui->thread_queue, t);
migrate_from_self_enqueue(c) ==
    /\ pc[c] = "mfs_enqueue"
    /\ thread_queue' = [thread_queue EXCEPT
                          ![scan[c].cpu] = enqueue(@, scan[c].t)]
    /\ scan' = [scan EXCEPT ![c].t = INVALID_ADDRESS]
    /\ pc' = [pc EXCEPT ![c] = "mfs_wakeup"]
    /\ UNCHANGED << total_processors, now, shutting_down, kernel_lock, runqueue,
                    bhqueue, runloop_timers, timer_expiry, timer_overdue, idle_cpu_mask,
                    last_timer_update, state, have_kernel_lock,
                    ci_last_timer_update, t, timer_updated, hw_timer, irq,
                    next_id, next_timer, executed, fired, iter_trace,
                    limit, lock_tried >>

migrate_from_self_wakeup(c) == wakeup_cpu_test(c, "mfs_wakeup", "mfs_ipi", "mfs_scan")

migrate_from_self_ipi(c) == wakeup_cpu_send(c, "mfs_ipi", "mfs_scan")

(* ------------------------------------------------- phase 4: run or sleep *)

\* if ((timeout < 0) || (timeout > runloop_timer_max))
phase4_reprograms(c) ==
    /\ ~timer_updated[c]
    /\ total_processors > 1
    /\ \/ ci_last_timer_update[c] - now < 0
       \/ ci_last_timer_update[c] - now > runloop_timer_max

\* if (t != INVALID_ADDRESS) { ...; run_thunk(t); }  else kernel_sleep()
runloop_phase4(c) ==
    /\ pc[c] = "phase4"
    /\ scan' = [scan EXCEPT ![c] = NoScan]
    /\ IF t[c] # INVALID_ADDRESS
       THEN /\ IF phase4_reprograms(c)
               THEN /\ hw_timer' = [hw_timer EXCEPT
                                      ![c] = now + runloop_timer_max]
                    /\ ci_last_timer_update' = [ci_last_timer_update EXCEPT
                                      ![c] = now + runloop_timer_max]
               ELSE UNCHANGED << hw_timer, ci_last_timer_update >>
            /\ executed' = [executed EXCEPT ![t[c][2]] = @ + 1]
            /\ iter_trace' = Traced(c, "thread")
            /\ t' = [t EXCEPT ![c] = INVALID_ADDRESS]
            /\ state' = [state EXCEPT ![c] = cpu_user]
            /\ pc' = [pc EXCEPT ![c] = "user"]
       ELSE /\ pc' = [pc EXCEPT ![c] = "sleep"]
            /\ iter_trace' = [iter_trace EXCEPT ![c] = << >>]
            /\ UNCHANGED << hw_timer, ci_last_timer_update, executed, t,
                            state >>
    /\ UNCHANGED << total_processors, now, shutting_down, kernel_lock, runqueue,
                    bhqueue, runloop_timers, timer_expiry, timer_overdue, idle_cpu_mask,
                    last_timer_update, have_kernel_lock, thread_queue,
                    timer_updated, irq, next_id, next_timer, fired,
                    limit, lock_tried >>

\* kernel_sleep: ci->state = cpu_idle
kernel_sleep_state(c) ==
    /\ pc[c] = "sleep"
    /\ state' = [state EXCEPT ![c] = cpu_idle]
    /\ pc' = [pc EXCEPT ![c] = "sleep_mask"]
    /\ UNCHANGED << total_processors, now, shutting_down, kernel_lock, runqueue,
                    bhqueue, runloop_timers, timer_expiry, timer_overdue, idle_cpu_mask,
                    last_timer_update, have_kernel_lock, ci_last_timer_update,
                    thread_queue, t, timer_updated, scan, hw_timer, irq,
                    next_id, next_timer, executed, fired, iter_trace,
                    limit, lock_tried >>

\* A kernel_sleep that halts without marking the CPU idle.
kernel_sleep_unmarked(c) ==
    /\ pc[c] = "sleep_mask"
    /\ pc' = [pc EXCEPT ![c] = "halt"]
    /\ UNCHANGED << total_processors, now, shutting_down, kernel_lock, runqueue,
                    bhqueue, runloop_timers, timer_expiry, timer_overdue,
                    idle_cpu_mask, last_timer_update, state, have_kernel_lock,
                    ci_last_timer_update, thread_queue, t, timer_updated, scan,
                    hw_timer, irq, next_id, next_timer, executed, fired,
                    iter_trace, limit, lock_tried >>

\* A kernel_sleep whose halt forgets an interrupt that became pending while
\* interrupts were disabled.
kernel_sleep_mask_drops(c) ==
    /\ pc[c] = "sleep_mask"
    /\ idle_cpu_mask' = idle_cpu_mask \cup {c}
    /\ irq' = [irq EXCEPT ![c] = {}]
    /\ pc' = [pc EXCEPT ![c] = "halt"]
    /\ UNCHANGED << total_processors, now, shutting_down, kernel_lock, runqueue,
                    bhqueue, runloop_timers, timer_expiry, timer_overdue,
                    last_timer_update, state, have_kernel_lock,
                    ci_last_timer_update, thread_queue, t, timer_updated, scan,
                    hw_timer, next_id, next_timer, executed, fired, iter_trace,
                    limit, lock_tried >>

\* kernel_sleep: bitmap_set_atomic(idle_cpu_mask, ci->id, 1); then
\* wait_for_interrupt()
kernel_sleep_mask(c) ==
    /\ pc[c] = "sleep_mask"
    /\ idle_cpu_mask' = idle_cpu_mask \cup {c}
    /\ pc' = [pc EXCEPT ![c] = "halt"]
    /\ UNCHANGED << total_processors, now, shutting_down, kernel_lock, runqueue,
                    bhqueue, runloop_timers, timer_expiry, timer_overdue, last_timer_update,
                    state, have_kernel_lock, ci_last_timer_update, thread_queue,
                    t, timer_updated, scan, hw_timer, irq, next_id, next_timer,
                    executed, fired, iter_trace, limit, lock_tried >>

(* ------------------------------------------------------------------ Next *)

Next ==
    \/ \E c \in CPUS : interrupt(c)
    \/ \E c \in CPUS : device_interrupt(c)
    \/ \E c \in CPUS : syscall_enter(c)
    \/ \E c \in CPUS : kern_lock_spin(c)
    \/ \E c \in CPUS : kern_lock_own(c)
    \/ \E c \in CPUS : syscall_body(c)
    \/ \E c \in CPUS : syscall_unlock_flag(c)
    \/ \E c \in CPUS : syscall_unlock_release(c)
    \/ \E c \in CPUS : runloop_entry(c)
    \/ \E c \in CPUS : runloop_bh(c)
    \/ \E c \in CPUS : runloop_try_lock(c)
    \/ \E c \in CPUS : timer_service(c)
    \/ \E c \in CPUS : runloop_runqueue(c)
    \/ \E c \in CPUS : update_timer(c)
    \/ \E c \in CPUS : runloop_unlock_flag(c)
    \/ \E c \in CPUS : runloop_unlock_release(c)
    \/ \E c \in CPUS : runloop_select(c)
    \/ \E c \in CPUS : migrate_to_self_scan(c)
    \/ \E c \in CPUS : migrate_to_self_dequeue(c)
    \/ \E c \in CPUS : migrate_to_self_test(c)
    \/ \E c \in CPUS : migrate_to_self_wakeup(c)
    \/ \E c \in CPUS : migrate_to_self_ipi(c)
    \/ \E c \in CPUS : fallback_scan(c)
    \/ \E c \in CPUS : fallback_dequeue(c)
    \/ \E c \in CPUS : migrate_from_self_scan(c)
    \/ \E c \in CPUS : migrate_from_self_test(c)
    \/ \E c \in CPUS : migrate_from_self_dequeue(c)
    \/ \E c \in CPUS : migrate_from_self_enqueue(c)
    \/ \E c \in CPUS : migrate_from_self_wakeup(c)
    \/ \E c \in CPUS : migrate_from_self_ipi(c)
    \/ \E c \in CPUS : runloop_phase4(c)
    \/ \E c \in CPUS : kernel_sleep_state(c)
    \/ \E c \in CPUS : kernel_sleep_mask(c)

SpecSched == InitSched /\ [][Next]_vars

\* Timer runs have a single task id, so no CPU ever holds a thread while a
\* second one is queued: the wakeup_cpu steps and the push of a surplus thread
\* are never enabled there, and the next-state relation leaves them out.
NextTimer ==
    \/ Tick
    \/ \E c \in CPUS : interrupt(c)
    \/ \E c \in CPUS : device_interrupt(c)
    \/ \E c \in CPUS : syscall_enter(c)
    \/ \E c \in CPUS : kern_lock_spin(c)
    \/ \E c \in CPUS : kern_lock_own(c)
    \/ \E c \in CPUS : syscall_body(c)
    \/ \E c \in CPUS : syscall_unlock_flag(c)
    \/ \E c \in CPUS : syscall_unlock_release(c)
    \/ \E c \in CPUS : runloop_entry(c)
    \/ \E c \in CPUS : runloop_bh(c)
    \/ \E c \in CPUS : runloop_try_lock(c)
    \/ \E c \in CPUS : timer_service(c)
    \/ \E c \in CPUS : runloop_runqueue(c)
    \/ \E c \in CPUS : update_timer(c)
    \/ \E c \in CPUS : runloop_unlock_flag(c)
    \/ \E c \in CPUS : runloop_unlock_release(c)
    \/ \E c \in CPUS : runloop_select(c)
    \/ \E c \in CPUS : migrate_to_self_scan(c)
    \/ \E c \in CPUS : migrate_to_self_dequeue(c)
    \/ \E c \in CPUS : migrate_to_self_test(c)
    \/ \E c \in CPUS : fallback_scan(c)
    \/ \E c \in CPUS : fallback_dequeue(c)
    \/ \E c \in CPUS : migrate_from_self_scan(c)
    \/ \E c \in CPUS : migrate_from_self_test(c)
    \/ \E c \in CPUS : migrate_from_self_dequeue(c)
    \/ \E c \in CPUS : runloop_phase4(c)
    \/ \E c \in CPUS : kernel_sleep_state(c)
    \/ \E c \in CPUS : kernel_sleep_mask(c)

SpecTimer == InitTimer /\ [][NextTimer]_vars

\* update_timer alone, from every clock value, next deadline and recorded
\* last_timer_update in range: CPU 0 holds the kernel lock and is about to
\* call it.
InitUpdateTimer ==
    /\ total_processors \in 1 .. MaxCpus
    /\ now \in 0 .. MaxTime
    /\ shutting_down = FALSE
    /\ kernel_lock = TRUE
    /\ runqueue = << >>
    /\ bhqueue = << >>
    /\ runloop_timers \in {{}, {1}}
    /\ timer_expiry \in {f \in [TimerIds -> -1 .. FarExpiry] :
                           \A i \in TimerIds :
                               IF i \in runloop_timers THEN f[i] >= 0
                               ELSE f[i] = -1}
    /\ timer_overdue = [i \in TimerIds |-> FALSE]
    /\ idle_cpu_mask = {c \in CPUS : Present(c) /\ c # 0}
    /\ last_timer_update \in 0 .. (MaxTime + runloop_timer_max)
    /\ state = [c \in CPUS |-> IF ~Present(c) THEN cpu_not_present
                               ELSE IF c = 0 THEN cpu_kernel ELSE cpu_idle]
    /\ have_kernel_lock = [c \in CPUS |-> c = 0]
    /\ ci_last_timer_update = [c \in CPUS |-> 0]
    /\ thread_queue = [c \in CPUS |-> << >>]
    /\ pc = [c \in CPUS |-> IF ~Present(c) THEN "absent"
                            ELSE IF c = 0 THEN "update_timer" ELSE "halt"]
    /\ t = [c \in CPUS |-> INVALID_ADDRESS]
    /\ timer_updated = [c \in CPUS |-> FALSE]
    /\ scan = [c \in CPUS |-> NoScan]
    /\ hw_timer = [c \in CPUS |-> 0]
    /\ irq = [c \in CPUS |-> {}]
    /\ next_id = 1
    /\ next_timer = 2
    /\ executed = [i \in TaskIds |-> 0]
    /\ fired = << >>
    /\ iter_trace = [c \in CPUS |-> << >>]
    /\ limit = [tasks |-> 0, timers |-> 1, time |-> MaxTime]
    /\ lock_tried = [c \in CPUS |-> IF c = 0 THEN "got" ELSE "none"]

NextUpdateTimer == \E c \in CPUS : update_timer(c)

SpecUpdateTimer == InitUpdateTimer /\ [][NextUpdateTimer]_vars

\* Migration runs: every CPU is up. CPUs 0 and 1 have left phase 2 with two
\* runnable threads each on their queues; the last CPU was taken out of
\* wait_for_interrupt by a device interrupt and enters the run loop with its
\* idle bit still set; any CPU in between sits in wait_for_interrupt. No
\* further thread becomes runnable and no device interrupts again.
InitRace ==
    /\ total_processors = MaxCpus
    /\ now = 0
    /\ shutting_down = FALSE
    /\ kernel_lock = FALSE
    /\ runqueue = << >>
    /\ bhqueue = << >>
    /\ runloop_timers = {}
    /\ timer_expiry = [i \in TimerIds |-> -1]
    /\ timer_overdue = [i \in TimerIds |-> FALSE]
    /\ idle_cpu_mask = {c \in CPUS : c > 1}
    /\ last_timer_update = 0
    /\ state = [c \in CPUS |-> IF c <= 1 THEN cpu_kernel
                               ELSE IF c = MaxCpus - 1 THEN cpu_interrupt
                               ELSE cpu_idle]
    /\ have_kernel_lock = [c \in CPUS |-> FALSE]
    /\ ci_last_timer_update = [c \in CPUS |-> 0]
    /\ thread_queue = [c \in CPUS |->
                         IF c = 0 THEN << <<"thread", 1>>, <<"thread", 2>> >>
                         ELSE IF c = 1 THEN << <<"thread", 3>>, <<"thread", 4>> >>
                         ELSE << >>]
    /\ pc = [c \in CPUS |-> IF c <= 1 THEN "select"
                            ELSE IF c = MaxCpus - 1 THEN "runloop"
                            ELSE "halt"]
    /\ t = [c \in CPUS |-> INVALID_ADDRESS]
    /\ timer_updated = [c \in CPUS |-> FALSE]
    /\ scan = [c \in CPUS |-> NoScan]
    /\ hw_timer = [c \in CPUS |-> 0]
    /\ irq = [c \in CPUS |-> {}]
    /\ next_id = 5
    /\ next_timer = 1
    /\ executed = [i \in TaskIds |-> 0]
    /\ fired = << >>
    /\ iter_trace = [c \in CPUS |-> << >>]
    /\ limit = [tasks |-> 4, timers |-> 0, time |-> 0]
    /\ lock_tried = [c \in CPUS |-> IF c <= 1 THEN "got" ELSE "none"]

\* In a migration run no CPU with an empty queue ever finds an idle CPU to
\* steal from, and no thread makes a system call: the next-state relation
\* leaves those steps out.
NextRace ==
    \/ \E c \in CPUS : interrupt(c)
    \/ \E c \in CPUS : runloop_entry(c)
    \/ \E c \in CPUS : runloop_bh(c)
    \/ \E c \in CPUS : runloop_try_lock(c)
    \/ \E c \in CPUS : timer_service(c)
    \/ \E c \in CPUS : runloop_runqueue(c)
    \/ \E c \in CPUS : update_timer(c)
    \/ \E c \in CPUS : runloop_unlock_flag(c)
    \/ \E c \in CPUS : runloop_unlock_release(c)
    \/ \E c \in CPUS : runloop_select(c)
    \/ \E c \in CPUS : migrate_to_self_scan(c)
    \/ \E c \in CPUS : fallback_scan(c)
    \/ \E c \in CPUS : fallback_dequeue(c)
    \/ \E c \in CPUS : migrate_from_self_scan(c)
    \/ \E c \in CPUS : migrate_from_self_test(c)
    \/ \E c \in CPUS : migrate_from_self_dequeue(c)
    \/ \E c \in CPUS : migrate_from_self_enqueue(c)
    \/ \E c \in CPUS : migrate_from_self_wakeup(c)
    \/ \E c \in CPUS : migrate_from_self_ipi(c)
    \/ \E c \in CPUS : runloop_phase4(c)
    \/ \E c \in CPUS : kernel_sleep_state(c)
    \/ \E c \in CPUS : kernel_sleep_mask(c)

SpecRace == InitRace /\ [][NextRace]_vars

\* A migration run with a running clock, taken up in the middle of the
\* double push. One timer is registered and due within runloop_timer_max.
\* CPU 0 has programmed its timer for that deadline in update_timer, has
\* dequeued thread 1 for itself and, in migrate_from_self, has found the
\* last CPU idle with an empty queue and has dequeued thread 2 for it; it
\* has not enqueued it yet. CPU 1 has pushed thread 4 to the same CPU, has
\* cleared its idle bit and sent the wakeup IPI, has resumed thread 3 with
\* its own recorded deadline equal to now() (no reprogramming in Phase 4),
\* and is back at the entry of the run loop after that thread trapped. The
\* last CPU is still halted, the IPI pending.
InitStrand ==
    /\ total_processors = MaxCpus
    /\ now = 1
    /\ shutting_down = FALSE
    /\ kernel_lock = FALSE
    /\ runqueue = << >>
    /\ bhqueue = << >>
    /\ runloop_timers = {1}
    /\ \E d \in 1 .. runloop_timer_max :
          /\ timer_expiry = [i \in TimerIds |-> IF i = 1 THEN now + d ELSE -1]
          /\ last_timer_update = now + d
          /\ ci_last_timer_update =
                [c \in CPUS |-> IF c = 0 THEN now + d
                                ELSE IF c = 1 THEN now ELSE 0]
          /\ hw_timer = [c \in CPUS |-> IF c = 0 THEN now + d
                                        ELSE IF c = 1 THEN now ELSE 0]
    /\ timer_overdue = [i \in TimerIds |-> FALSE]
    /\ idle_cpu_mask = {c \in CPUS : c > 1 /\ c < MaxCpus - 1}
    /\ timer_updated = [c \in CPUS |-> c = 0]
    /\ state = [c \in CPUS |-> IF c = 0 THEN cpu_kernel
                               ELSE IF c = 1 THEN cpu_interrupt
                               ELSE cpu_idle]
    /\ have_kernel_lock = [c \in CPUS |-> FALSE]
    /\ thread_queue = [c \in CPUS |-> IF c = MaxCpus - 1
                                      THEN << <<"thread", 4>> >> ELSE << >>]
    /\ pc = [c \in CPUS |-> IF c = 0 THEN "mfs_enqueue"
                            ELSE IF c = 1 THEN "runloop" ELSE "halt"]
    /\ t = [c \in CPUS |-> IF c = 0 THEN <<"thread", 1>> ELSE INVALID_ADDRESS]
    /\ scan = [c \in CPUS |->
                 IF c = 0
                 THEN [AfterPass(0, 0, "mfs_scan", "phase4").scan
                         EXCEPT !.cpu = MaxCpus - 1, !.t = <<"thread", 2>>]
                 ELSE NoScan]
    /\ irq = [c \in CPUS |-> IF c = MaxCpus - 1 THEN {"ipi"} ELSE {}]
    /\ next_id = 5
    /\ next_timer = 2
    /\ executed = [i \in TaskIds |-> IF i = 3 THEN 1 ELSE 0]
    /\ fired = << >>
    /\ iter_trace = [c \in CPUS |-> << >>]
    /\ limit = [tasks |-> 4, timers |-> 1, time |-> now + MaxTime]
    /\ lock_tried = [c \in CPUS |-> IF c = 0 THEN "got" ELSE "none"]

NextStrand ==
    \/ NextRace
    \/ Tick

SpecStrand == InitStrand /\ [][NextStrand]_vars

\* The steps of one CPU in a migration run.
StepRace(c) ==
    \/ interrupt(c)
    \/ runloop_entry(c)
    \/ runloop_bh(c)
    \/ runloop_try_lock(c)
    \/ timer_service(c)
    \/ runloop_runqueue(c)
    \/ update_timer(c)
    \/ runloop_unlock_flag(c)
    \/ runloop_unlock_release(c)
    \/ runloop_select(c)
    \/ migrate_to_self_scan(c)
    \/ fallback_scan(c)
    \/ fallback_dequeue(c)
    \/ migrate_from_self_scan(c)
    \/ migrate_from_self_test(c)
    \/ migrate_from_self_dequeue(c)
    \/ migrate_from_self_enqueue(c)
    \/ migrate_from_self_wakeup(c)
    \/ migrate_from_self_ipi(c)
    \/ runloop_phase4(c)
    \/ kernel_sleep_state(c)
    \/ kernel_sleep_mask(c)

\* Migration runs in which every CPU keeps executing: a CPU inside the run
\* loop takes its next step, and a CPU in wait_for_interrupt or in user mode
\* with an interrupt pending takes it. A thread in user mode with nothing
\* pending stays there.
SpecRaceFair == SpecRace /\ \A c \in CPUS : WF_vars(StepRace(c))

\* Shutdown runs: the scheduling runs, in which a system call may start the
\* shutdown.
NextShutdown ==
    \/ Next
    \/ \E c \in CPUS : kernel_shutdown(c)
    \/ \E c \in CPUS : global_shutdown(c)

SpecShutdown == InitSched /\ [][NextShutdown]_vars

\* Quiet runs: one CPU, limit.runner, enters the run loop and goes through
\* one iteration while nothing else happens. Every other CPU is caught in a
\* state it can stay in: halted with its idle bit set ("idle"), running a
\* thread ("user"), running a thread with its idle bit still set from an
\* earlier halt ("stale"), or in a system call under the kernel lock
\* ("kernel"). SchedTasks threads or fewer are queued, anywhere; limit.queued
\* and limit.marked keep the queue lengths and the idle mask of the start.
PeerKinds == {"runner", "idle", "user", "stale", "kernel", "absent"}

InitQuiet ==
    /\ total_processors \in 2 .. MaxCpus
    /\ \E kind \in [CPUS -> PeerKinds], len \in [CPUS -> 0 .. SchedTasks] :
           /\ Cardinality({c \in CPUS : kind[c] = "runner"}) = 1
           /\ Cardinality({c \in CPUS : kind[c] = "kernel"}) <= 1
           /\ \A c \in CPUS : kind[c] = "absent" <=> c >= total_processors
           /\ \A c \in CPUS : kind[c] = "absent" => len[c] = 0
           /\ SumOver(len, CPUS) <= SchedTasks
           /\ now = 0
           /\ shutting_down = FALSE
           /\ kernel_lock = (\E c \in CPUS : kind[c] = "kernel")
           /\ runqueue = << >>
           /\ bhqueue = << >>
           /\ runloop_timers = {}
           /\ timer_expiry = [i \in TimerIds |-> -1]
           /\ timer_overdue = [i \in TimerIds |-> FALSE]
           /\ idle_cpu_mask = {c \in CPUS : kind[c] \in {"idle", "stale"}}
           /\ last_timer_update = 0
           /\ state = [c \in CPUS |->
                         CASE kind[c] = "runner" -> cpu_interrupt
                           [] kind[c] = "idle" -> cpu_idle
                           [] kind[c] \in {"user", "stale"} -> cpu_user
                           [] kind[c] = "kernel" -> cpu_kernel
                           [] OTHER -> cpu_not_present]
           /\ have_kernel_lock = [c \in CPUS |-> kind[c] = "kernel"]
           /\ ci_last_timer_update = [c \in CPUS |-> 0]
           /\ thread_queue =
                 [c \in CPUS |->
                    [i \in 1 .. len[c] |->
                       <<"thread", SumOver(len, {d \in CPUS : d < c}) + i>>]]
           /\ pc = [c \in CPUS |->
                      CASE kind[c] = "runner" -> "runloop"
                        [] kind[c] = "idle" -> "halt"
                        [] kind[c] \in {"user", "stale"} -> "user"
                        [] kind[c] = "kernel" -> "syscall"
                        [] OTHER -> "absent"]
           /\ t = [c \in CPUS |-> INVALID_ADDRESS]
           /\ timer_updated = [c \in CPUS |-> FALSE]
           /\ scan = [c \in CPUS |-> NoScan]
           /\ hw_timer = [c \in CPUS |-> 0]
           /\ irq = [c \in CPUS |-> {}]
           /\ next_id = SumOver(len, CPUS) + 1
           /\ next_timer = 1
           /\ executed = [i \in TaskIds |-> 0]
           /\ fired = << >>
           /\ iter_trace = [c \in CPUS |-> << >>]
           /\ limit = [tasks |-> SumOver(len, CPUS), timers |-> 0, time |-> 0,
                       runner |-> CHOOSE c \in CPUS : kind[c] = "runner",
                       queued |-> len,
                       marked |-> {c \in CPUS : kind[c] \in {"idle", "stale"}}]
           /\ lock_tried = [c \in CPUS |-> "none"]

\* The steps of the run loop; no interrupt, no system call.
NextQuiet ==
    \/ \E c \in CPUS : runloop_entry(c)
    \/ \E c \in CPUS : runloop_bh(c)
    \/ \E c \in CPUS : runloop_try_lock(c)
    \/ \E c \in CPUS : timer_service(c)
    \/ \E c \in CPUS : runloop_runqueue(c)
    \/ \E c \in CPUS : update_timer(c)
    \/ \E c \in CPUS : runloop_unlock_flag(c)
    \/ \E c \in CPUS : runloop_unlock_release(c)
    \/ \E c \in CPUS : runloop_select(c)
    \/ \E c \in CPUS : migrate_to_self_scan(c)
    \/ \E c \in CPUS : migrate_to_self_dequeue(c)
    \/ \E c \in CPUS : migrate_to_self_test(c)
    \/ \E c \in CPUS : migrate_to_self_wakeup(c)
    \/ \E c \in CPUS : migrate_to_self_ipi(c)
    \/ \E c \in CPUS : fallback_scan(c)
    \/ \E c \in CPUS : fallback_dequeue(c)
    \/ \E c \in CPUS : migrate_from_self_scan(c)
    \/ \E c \in CPUS : migrate_from_self_test(c)
    \/ \E c \in CPUS : migrate_from_self_dequeue(c)
    \/ \E c \in CPUS : migrate_from_self_enqueue(c)
    \/ \E c \in CPUS : migrate_from_self_wakeup(c)
    \/ \E c \in CPUS : migrate_from_self_ipi(c)
    \/ \E c \in CPUS : runloop_phase4(c)
    \/ \E c \in CPUS : kernel_sleep_state(c)
    \/ \E c \in CPUS : kernel_sleep_mask(c)

SpecQuiet == InitQuiet /\ [][NextQuiet]_vars

\* The same starts, with IPIs delivered: a CPU the runner wakes goes through
\* the run loop itself, scans, steals, pushes and halts again, so that idle
\* bits are set and cleared and queues change while another CPU scans.
NextWoken ==
    \/ NextQuiet
    \/ \E c \in CPUS : interrupt(c)

SpecWoken == InitQuiet /\ [][NextWoken]_vars

\* Bottom-half runs: two CPUs. A thread on CPU 0 is inside a system call and
\* keeps the kernel lock for the whole run; an interrupt on CPU 1 has pushed
\* limit.bh completions onto bhqueue and CPU 1 enters the run loop, once.
InitBh ==
    /\ total_processors = 2
    /\ now = 0
    /\ shutting_down = FALSE
    /\ kernel_lock = TRUE
    /\ runqueue = << >>
    /\ bhqueue \in {[i \in 1 .. k |-> <<"bh", i>>] : k \in 0 .. SchedTasks}
    /\ runloop_timers = {}
    /\ timer_expiry = [i \in TimerIds |-> -1]
    /\ timer_overdue = [i \in TimerIds |-> FALSE]
    /\ idle_cpu_mask = {1}
    /\ last_timer_update = 0
    /\ state = [c \in CPUS |-> IF c = 0 THEN cpu_kernel
                               ELSE IF c = 1 THEN cpu_interrupt
                               ELSE cpu_not_present]
    /\ have_kernel_lock = [c \in CPUS |-> c = 0]
    /\ ci_last_timer_update = [c \in CPUS |-> 0]
    /\ thread_queue = [c \in CPUS |-> << >>]
    /\ pc = [c \in CPUS |-> IF c = 0 THEN "syscall"
                            ELSE IF c = 1 THEN "runloop" ELSE "absent"]
    /\ t = [c \in CPUS |-> INVALID_ADDRESS]
    /\ timer_updated = [c \in CPUS |-> FALSE]
    /\ scan = [c \in CPUS |-> NoScan]
    /\ hw_timer = [c \in CPUS |-> 0]
    /\ irq = [c \in CPUS |-> {}]
    /\ next_id = Len(bhqueue) + 1
    /\ next_timer = 1
    /\ executed = [i \in TaskIds |-> 0]
    /\ fired = << >>
    /\ iter_trace = [c \in CPUS |-> << >>]
    /\ limit = [tasks |-> SchedTasks, timers |-> 0, time |-> 0,
                bh |-> Len(bhqueue)]
    /\ lock_tried = [c \in CPUS |-> "none"]

\* The system call goes on under the lock and does not return; CPU 1 goes
\* through the run loop. With the lock never free and one other CPU, which
\* is neither idle nor in user mode, the remaining steps cannot happen.
NextBh ==
    \/ \E c \in CPUS : syscall_body(c)
    \/ \E c \in CPUS : runloop_entry(c)
    \/ \E c \in CPUS : runloop_bh(c)
    \/ \E c \in CPUS : runloop_try_lock(c)
    \/ \E c \in CPUS : runloop_select(c)
    \/ \E c \in CPUS : migrate_to_self_scan(c)
    \/ \E c \in CPUS : fallback_scan(c)
    \/ \E c \in CPUS : migrate_from_self_scan(c)
    \/ \E c \in CPUS : runloop_phase4(c)
    \/ \E c \in CPUS : kernel_sleep_state(c)
    \/ \E c \in CPUS : kernel_sleep_mask(c)

SpecBh == InitBh /\ [][NextBh]_vars

(* ------------------------------------------ wakeup_or_interrupt_cpu_all *)

\* One CPU, in the kernel under the lock, is about to call
\* wakeup_or_interrupt_cpu_all; its own idle bit is set (stale) or clear.
\* Every other CPU is halted, in user mode, or in user mode with a stale
\* idle bit, and the thread queues hold any threads. limit records the
\* caller, the bits and the queues of the start.
InitWakeAll ==
    /\ total_processors \in 1 .. MaxCpus
    /\ \E caller \in CPUS, kind \in [CPUS -> {"idle", "user", "stale"}],
          len \in [CPUS -> 0 .. SchedTasks] :
           /\ caller < total_processors
           /\ kind[caller] \in {"user", "stale"}
           /\ \A c \in CPUS : c >= total_processors
                                  => kind[c] = "user" /\ len[c] = 0
           /\ SumOver(len, CPUS) <= SchedTasks
           /\ now = 0
           /\ shutting_down = FALSE
           /\ kernel_lock = TRUE
           /\ runqueue = << >>
           /\ bhqueue = << >>
           /\ runloop_timers = {}
           /\ timer_expiry = [i \in TimerIds |-> -1]
           /\ timer_overdue = [i \in TimerIds |-> FALSE]
           /\ idle_cpu_mask = {c \in CPUS : kind[c] \in {"idle", "stale"}}
           /\ last_timer_update = 0
           /\ state = [c \in CPUS |->
                         IF c >= total_processors THEN cpu_not_present
                         ELSE IF c = caller THEN cpu_kernel
                         ELSE IF kind[c] = "idle" THEN cpu_idle
                         ELSE cpu_user]
           /\ have_kernel_lock = [c \in CPUS |-> c = caller]
           /\ ci_last_timer_update = [c \in CPUS |-> 0]
           /\ thread_queue =
                 [c \in CPUS |->
                    [i \in 1 .. len[c] |->
                       <<"thread", SumOver(len, {d \in CPUS : d < c}) + i>>]]
           /\ pc = [c \in CPUS |->
                      IF c >= total_processors THEN "absent"
                      ELSE IF c = caller THEN "wake_all"
                      ELSE IF kind[c] = "idle" THEN "halt"
                      ELSE "user"]
           /\ t = [c \in CPUS |-> INVALID_ADDRESS]
           /\ timer_updated = [c \in CPUS |-> FALSE]
           /\ scan = [c \in CPUS |-> NoScan]
           /\ hw_timer = [c \in CPUS |-> 0]
           /\ irq = [c \in CPUS |-> {}]
           /\ next_id = SumOver(len, CPUS) + 1
           /\ next_timer = 1
           /\ executed = [i \in TaskIds |-> 0]
           /\ fired = << >>
           /\ iter_trace = [c \in CPUS |-> << >>]
           /\ limit = [tasks |-> SumOver(len, CPUS), timers |-> 0, time |-> 0,
                       caller |-> caller,
                       marked |-> {c \in CPUS : kind[c] \in {"idle", "stale"}},
                       queues |-> thread_queue]
           /\ lock_tried = [c \in CPUS |-> "none"]

\* The call alone: the other CPUs do not move while it runs.
NextWakeAll ==
    \/ \E c \in CPUS : wakeup_or_interrupt_cpu_all_clear(c)
    \/ \E c \in CPUS : wakeup_or_interrupt_cpu_all_ipi(c)

SpecWakeAll == InitWakeAll /\ [][NextWakeAll]_vars

(* ================================================================ claims *)

(* ------------------------------------------------------------------- C1 *)

\* C1: at every instant at most one CPU has have_kernel_lock = TRUE, whether
\* the lock was taken through kern_lock or through kern_try_lock.
C1_OneLockHolder ==
    \A c \in CPUS, d \in CPUS :
        have_kernel_lock[c] /\ have_kernel_lock[d] => c = d

\* One CPU holds the lock inside the run loop while another spins in kern_lock.
C1_Contended ==
    \E c \in CPUS, d \in CPUS :
        /\ c # d
        /\ have_kernel_lock[c]
        /\ pc[c] \in {"timer_service", "runq", "update_timer", "unlock"}
        /\ pc[d] = "kern_lock"

(* ------------------------------------------------------------------- C2 *)

QueuedCopies(q, i) ==
    Cardinality({k \in 1 .. Len(q) : q[k][1] # "timer" /\ q[k][2] = i})

HeldCopies(x, i) ==
    IF x # INVALID_ADDRESS /\ x[1] # "timer" /\ x[2] = i THEN 1 ELSE 0

\* In how many places task i is waiting to be run.
Copies(i) ==
    QueuedCopies(bhqueue, i) + QueuedCopies(runqueue, i)
    + SumOver([c \in CPUS |-> QueuedCopies(thread_queue[c], i)
                              + HeldCopies(t[c], i)
                              + HeldCopies(scan[c].t, i)], CPUS)

WakeupInFlight(c) ==
    \/ "ipi" \in irq[c]
    \/ \E d \in CPUS : pc[d] \in {"mts_ipi", "mfs_ipi"} /\ scan[d].cpu = c

WakeupUnderWay(c) ==
    \E d \in CPUS : pc[d] \in {"mts_wakeup", "mfs_wakeup"} /\ scan[d].cpu = c

\* C4: every CPU whose idle_cpu_mask bit is set has an empty thread_queue or
\* has been sent a wakeup IPI that it has not yet observed. Stated where it
\* asks least of the code: only for a CPU that sits in wait_for_interrupt,
\* and counting a wakeup_cpu call that is under way as an IPI already sent.
C4_HaltedHasNoWork ==
    \A c \in CPUS :
        c \in idle_cpu_mask /\ pc[c] = "halt"
            => \/ queue_empty(thread_queue[c])
               \/ WakeupInFlight(c)
               \/ WakeupUnderWay(c)

(* ------------------------------------------------------------------- C5 *)

\* C5: no CPU is in state Interrupt when it calls kern_try_lock or
\* kern_unlock; the run loop, entered from an interrupt handler, has set the
\* state to Kernel before it tries the lock.
C5_NoLockInInterrupt ==
    \A c \in CPUS :
        pc[c] \in {"try_lock", "unlock", "sys_unlock"}
            => state[c] # cpu_interrupt

\* A CPU whose idle bit is still set, so one that an interrupt took out of
\* wait_for_interrupt, is in the run loop and about to call kern_try_lock.
C5_FromInterrupt ==
    \E c \in CPUS :
        pc[c] = "try_lock" /\ c \in idle_cpu_mask /\ state[c] = cpu_kernel

(* ------------------------------------------------------------------- C6 *)

\* C6 as stated: after every phase 2 in which a CPU holds the kernel lock,
\* the global last_timer_update equals the deadline that CPU's hardware timer
\* is programmed for.
C6_GlobalIsProgrammed ==
    \A c \in CPUS :
        pc[c] = "unlock" => last_timer_update = hw_timer[c]

\* C6, as far as it holds: after a phase 2 in which update_timer programmed
\* the timer, or on a system with a single CPU, the global last_timer_update
\* equals the deadline the CPU's hardware timer is programmed for; when
\* update_timer programmed the timer the CPU's own last_timer_update equals
\* it too.
C6_GlobalIsProgrammedWhenUpdated ==
    \A c \in CPUS :
        pc[c] = "unlock" /\ (timer_updated[c] \/ total_processors = 1)
            => /\ last_timer_update = hw_timer[c]
               /\ timer_updated[c] => ci_last_timer_update[c] = hw_timer[c]

\* The only CPU of a system left phase 2 without reprogramming its timer.
C6_SingleCpuSkip ==
    /\ total_processors = 1
    /\ pc[0] = "unlock"
    /\ ~timer_updated[0]
    /\ hw_timer[0] > 0

(* ------------------------------------------------------------------- C7 *)

\* C7 as stated: whenever update_timer programs the hardware timer, the
\* programmed deadline is no earlier than next - runloop_timer_max and no
\* later than next + runloop_timer_min, next being the earliest heap deadline.
C7_DeadlineNearNext ==
    \A c \in CPUS :
        pc[c] = "unlock" /\ timer_updated[c] /\ runloop_timers # {}
            => /\ hw_timer[c] >= timer_check(runloop_timers) - runloop_timer_max
               /\ hw_timer[c] <= timer_check(runloop_timers) + runloop_timer_min

\* C7, as far as it holds: the programmed deadline lies between
\* now + runloop_timer_min and now + runloop_timer_max; it is no later than
\* next + runloop_timer_min when next has not passed yet, no earlier than
\* next - runloop_timer_max when next is at most 2 * runloop_timer_max away,
\* and it is next itself when next is more than runloop_timer_min and at most
\* runloop_timer_max away.
C7_TimeoutClamped ==
    \A c \in CPUS :
        pc[c] = "unlock" /\ timer_updated[c]
            => LET next == timer_check(runloop_timers)
               IN  /\ hw_timer[c] >= now + runloop_timer_min
                   /\ hw_timer[c] <= now + runloop_timer_max
                   /\ next >= now => hw_timer[c] <= next + runloop_timer_min
                   /\ next <= now + 2 * runloop_timer_max
                          => hw_timer[c] >= next - runloop_timer_max
                   /\ (next - now > runloop_timer_min
                       /\ next - now <= runloop_timer_max)
                          => hw_timer[c] = next

\* update_timer programmed the timer for a deadline that had already passed.
C7_ExpiredProgrammed ==
    \E c \in CPUS :
        /\ pc[c] = "unlock"
        /\ timer_updated[c]
        /\ runloop_timers # {}
        /\ timer_check(runloop_timers) < now

(* ------------------------------------------------------------------- C8 *)

FiredCount(i) == Cardinality({k \in 1 .. Len(fired) : fired[k] = i})

\* A timer waits in the heap while every CPU sits in wait_for_interrupt with
\* no interrupt pending and no hardware timer armed.
TimerLost ==
    /\ runloop_timers # {}
    /\ \A c \in CPUS :
           Present(c) => pc[c] = "halt" /\ irq[c] = {} /\ hw_timer[c] <= now

\* The handler of a timer fires at most once and not before its deadline.
C8_OnceNotEarly ==
    \A i \in TimerIds :
        /\ FiredCount(i) <= 1
        /\ i \in runloop_timers => FiredCount(i) = 0
        /\ FiredCount(i) = 1 => timer_expiry[i] >= 0 /\ timer_expiry[i] <= now

\* C8: a one-shot timer registered with deadline D has its handler invoked
\* exactly once, not before D, and eventually: it is never left in the heap
\* with nothing that would bring a CPU back to timer_service.
C8_FiresOnce == C8_OnceNotEarly /\ ~TimerLost

(* ------------------------------------------------------------------- C9 *)

\* C9 as stated: handlers fire in non-decreasing order of their deadlines.
C9_DeadlineOrder ==
    \A j \in 1 .. Len(fired), k \in 1 .. Len(fired) :
        j < k => timer_expiry[fired[j]] <= timer_expiry[fired[k]]

\* C9, as far as it holds: a handler whose timer was not registered with an
\* absolute deadline already in the past never fires after a handler with a
\* later deadline.
C9_DeadlineOrderUnlessOverdue ==
    \A j \in 1 .. Len(fired), k \in 1 .. Len(fired) :
        j < k /\ ~timer_overdue[fired[k]]
            => timer_expiry[fired[j]] <= timer_expiry[fired[k]]

\* Two handlers with different deadlines have fired, the earlier one first.
C9_TwoFired ==
    /\ Len(fired) = 2
    /\ ~timer_overdue[fired[2]]
    /\ timer_expiry[fired[1]] < timer_expiry[fired[2]]

(* ------------------------------------------------------------------ C10 *)

Rank(kind) == IF kind = "bh" THEN 1 ELSE IF kind = "rq" THEN 2 ELSE 3

\* C10: within one iteration of the run loop every bottom-half task runs
\* before every runqueue task, and every runqueue task before the user thread.
C10_PhaseOrder ==
    \A c \in CPUS :
        \A k \in 1 .. (Len(iter_trace[c]) - 1) :
            Rank(iter_trace[c][k]) < Rank(iter_trace[c][k + 1])

\* One iteration ran work of all three classes.
C10_AllThree ==
    \E c \in CPUS : iter_trace[c] = << "bh", "rq", "thread" >>

(* ------------------------------------------------------------------ C11 *)

\* Where a CPU is while it runs the locked part of the run loop.
Phase2 == {"timer_service", "runq", "update_timer", "unlock"}

C12_BhWithoutLock ==
    /\ kernel_lock /\ have_kernel_lock[0] /\ ~have_kernel_lock[1]
    /\ pc[1] \in {"runloop", "bh"} => lock_tried[1] = "none"
    /\ \A i \in 1 .. limit.bh :
           /\ executed[i] <= 1
           /\ pc[1] \notin {"runloop", "bh"} => executed[i] = 1
    /\ pc[1] = "try_lock" => ENABLED runloop_try_lock(1)
    /\ lock_tried[1] # "got"
    /\ pc[1] \notin Phase2 \cup {"unlock2", "kern_lock", "kern_lock_own"}

\* CPU 1 has run at least two bottom-half tasks and has been refused the lock.
C12_AllRun ==
    /\ limit.bh >= 2
    /\ \A i \in 1 .. limit.bh : executed[i] = 1
    /\ lock_tried[1] = "failed"
    /\ pc[1] = "select"
    /\ have_kernel_lock[0]

(* ------------------------------------------------------------------ C13 *)

\* Where a CPU is while it selects, steals, pushes or resumes a thread.
Phase3 ==
    {"mts_scan", "mts_dequeue", "mts_test", "mts_wakeup", "mts_ipi",
     "fallback", "fallback_dequeue", "mfs_scan", "mfs_test", "mfs_dequeue",
     "mfs_enqueue", "mfs_wakeup", "mfs_ipi", "phase4"}

\* C13 as stated: once shutting_down is true no phase-3 work is performed on
\* any CPU: nothing is dequeued from a thread_queue, no wakeup IPI is sent
\* and no thread is resumed.
C13_NoPhase3Ever ==
    [][ shutting_down =>
        \A c \in CPUS :
            /\ Len(thread_queue'[c]) >= Len(thread_queue[c])
            /\ "ipi" \in irq'[c] => "ipi" \in irq[c]
            /\ pc'[c] = "user" => pc[c] = "user" ]_vars

\* C13, as far as it holds: once shutting_down is true, a CPU that is not
\* already inside phase 3 never enters it: at the test of shutting_down it goes straight to
\* kernel_sleep, touching no thread_queue, no idle bit and no IPI, it resumes
\* no thread, and kernel_sleep takes it to wait_for_interrupt; and while no
\* CPU is inside phase 3 nothing is dequeued from a thread_queue, no wakeup
\* IPI is sent and no thread is resumed.
C13_NoPhase3 ==
    [][ shutting_down =>
        /\ shutting_down'
        /\ \A c \in CPUS :
              /\ pc[c] \notin Phase3
                    => /\ pc'[c] \notin Phase3
                       /\ pc'[c] = "user" => pc[c] = "user"
              /\ pc[c] = "select" /\ pc'[c] # "select"
                    => /\ pc'[c] = "sleep"
                       /\ UNCHANGED << thread_queue, idle_cpu_mask, irq, t,
                                       executed >>
              /\ pc[c] = "sleep" /\ pc'[c] # "sleep" => pc'[c] = "sleep_mask"
              /\ pc[c] = "sleep_mask" /\ pc'[c] # "sleep_mask"
                    => pc'[c] = "halt" /\ state'[c] = cpu_idle
        /\ (\A c \in CPUS : pc[c] \notin Phase3)
              => \A c \in CPUS :
                     /\ Len(thread_queue'[c]) >= Len(thread_queue[c])
                     /\ "ipi" \in irq'[c] => "ipi" \in irq[c] ]_vars

\* During the shutdown a CPU has gone through phases 1 and 2, has run work
\* there, and is on its way to the halt with a thread left on its queue.
C13_Skipped ==
    \E c \in CPUS :
        /\ shutting_down
        /\ pc[c] = "sleep"
        /\ lock_tried[c] # "none"
        /\ iter_trace[c] # << >>
        /\ ~queue_empty(thread_queue[c])

(* ------------------------------------------------------------------ C14 *)

\* Quiet runs: the CPU that goes through the run loop, the other CPUs, and
\* whether its iteration is over.
Runner == limit.runner

Peers == {c \in CPUS : Present(c) /\ c # Runner}

IterationOver == pc[Runner] \in {"user", "halt"}

\* By how much the queue of c has grown since the start.
Gained(c) == Len(thread_queue[c]) - limit.queued[c]

\* The task id at the head of the queue of c at the start.
HeadId(c) == SumOver(limit.queued, {d \in CPUS : d < c}) + 1

\* The order in which the scans of CPU c go over the other CPUs.
ScanOrder(c) ==
    [i \in 1 .. (total_processors - 1) |-> (c + i) % total_processors]

FirstInOrder(c, S) ==
    LET idx == {i \in DOMAIN ScanOrder(c) : ScanOrder(c)[i] \in S}
    IN  IF idx = {} THEN INVALID_PHYSICAL
        ELSE ScanOrder(c)[CHOOSE i \in idx : \A j \in idx : i <= j]

\* The peers that were marked idle with an empty queue at the start.
EmptyIdle == {c \in Peers : c \in limit.marked /\ limit.queued[c] = 0}

\* C14: a CPU that enters the run loop with k >= 1 threads queued and m
\* peers marked idle with empty queues, nothing else running, runs the head
\* of its queue, moves exactly min(k - 1, m) threads, one onto each of as
\* many of those peers and none elsewhere, and every recipient has its idle
\* bit cleared and a wakeup IPI pending; its own queue keeps the rest.
C14_Push ==
    IterationOver /\ limit.queued[Runner] >= 1
        => LET k == limit.queued[Runner]
               moved == MIN(k - 1, Cardinality(EmptyIdle))
               got == {c \in Peers : Gained(c) > 0}
           IN  /\ pc[Runner] = "user"
               /\ executed[HeadId(Runner)] = 1
               /\ SumOver(executed, TaskIds) = 1
               /\ Len(thread_queue[Runner]) = k - 1 - moved
               /\ got \subseteq EmptyIdle
               /\ Cardinality(got) = moved
               /\ \A c \in Peers : Gained(c) \in {0, 1}
               /\ \A c \in got : c \notin idle_cpu_mask /\ "ipi" \in irq[c]

\* Two CPUs, four threads on the runner's queue, the other CPU idle: the
\* runner runs one, has pushed one and keeps two.
C14_FourOne ==
    /\ total_processors = 2
    /\ limit.queued[Runner] = 4
    /\ Cardinality(EmptyIdle) = 1
    /\ pc[Runner] = "user"
    /\ Len(thread_queue[Runner]) = 2
    /\ \A c \in Peers : Len(thread_queue[c]) = 1 /\ "ipi" \in irq[c]

(* ------------------------------------------------------------------ C15 *)

\* The runner starts with an empty queue and no CPU marked idle has a thread.
NothingAtIdle ==
    /\ limit.queued[Runner] = 0
    /\ \A c \in limit.marked : limit.queued[c] = 0

\* The peers that run a thread and have threads queued.
Busy == {c \in Peers : state[c] = cpu_user /\ limit.queued[c] >= 1}

\* C15 as stated: a CPU that enters the run loop with an empty queue while a
\* peer has k >= 1 queued threads and no idle CPU has a queued thread takes
\* exactly one thread, from such a peer, which is left with k - 1.
C15_StealsOne ==
    IterationOver /\ NothingAtIdle /\ (\E c \in Peers : limit.queued[c] >= 1)
        => /\ pc[Runner] = "user"
           /\ \E p \in Peers :
                  /\ limit.queued[p] >= 1
                  /\ Gained(p) = -1
                  /\ \A c \in Peers \ {p} : Gained(c) = 0

\* C15, as far as it holds: if in addition some such peer is in state User,
\* the entering CPU takes exactly one thread, the head of the queue of the
\* first such peer in scan order, which is left with k - 1, and runs it;
\* every other queue, the idle mask and the pending interrupts stay as they
\* were. If no such peer is in state User it takes nothing and halts.
C15_StealsOneFromUser ==
    IterationOver /\ NothingAtIdle
        => IF Busy # {}
           THEN LET p == FirstInOrder(Runner, Busy)
                IN  /\ pc[Runner] = "user"
                    /\ Gained(p) = -1
                    /\ executed[HeadId(p)] = 1
                    /\ SumOver(executed, TaskIds) = 1
                    /\ \A c \in CPUS \ {p} : Gained(c) = 0
                    /\ idle_cpu_mask = limit.marked
                    /\ \A c \in CPUS : irq[c] = {}
           ELSE /\ pc[Runner] = "halt"
                /\ \A c \in CPUS : Gained(c) = 0
                /\ SumOver(executed, TaskIds) = 0

\* Two CPUs: CPU 0 runs a thread with four more queued, CPU 1 came in with an
\* empty queue, runs a thread now, and CPU 0 has three left.
C15_FourThree ==
    /\ total_processors = 2
    /\ Runner = 1
    /\ limit.queued[0] = 4
    /\ state[0] = cpu_user
    /\ 0 \notin limit.marked
    /\ pc[1] = "user"
    /\ Len(thread_queue[0]) = 3

(* ------------------------------------------------------------------ C16 *)

\* What the fallback scan does when it is reached: it robs the first peer in
\* scan order that is in state User and has a thread, of one thread, and
\* passes over every peer in another state.
FallbackInOrder ==
    IterationOver /\ NothingAtIdle
        => \A c \in Peers :
               Gained(c) = IF c = FirstInOrder(Runner, Busy) THEN -1 ELSE 0

IdleWithWork == {c \in Peers : c \in limit.marked /\ limit.queued[c] >= 1}

\* C17 as stated: in the pull path and in the push path alike, every idle CPU
\* that the scan finds with a non-empty queue is sent a wakeup IPI, also the
\* one whose queue held a single thread when a scanning CPU without a thread
\* reached it.
C17_AlwaysWoken ==
    IterationOver => \A c \in IdleWithWork : "ipi" \in irq[c]

\* C17, as far as it holds: in the push path every idle CPU found with a
\* non-empty queue keeps its queue, has its bit cleared and is sent the IPI.
\* In the pull path the first such CPU in scan order loses a thread to the
\* scanning CPU and is woken if and only if its queue is still non-empty
\* after that; every later one keeps its queue and is woken. No other CPU is
\* sent an IPI, except a CPU onto which the push path moved a thread.
C17_WokenIfWorkLeft ==
    IterationOver
        => /\ \A c \in IdleWithWork :
                  IF limit.queued[Runner] = 0
                     /\ c = FirstInOrder(Runner, IdleWithWork)
                  THEN /\ Gained(c) = -1
                       /\ "ipi" \in irq[c] <=> limit.queued[c] >= 2
                       /\ c \in idle_cpu_mask <=> limit.queued[c] = 1
                  ELSE /\ Gained(c) = 0
                       /\ "ipi" \in irq[c]
                       /\ c \notin idle_cpu_mask
           /\ \A c \in CPUS \ IdleWithWork :
                  "ipi" \in irq[c] => c \in EmptyIdle /\ Gained(c) = 1

\* Pull path on three CPUs: the first idle CPU had a single thread, lost it
\* and was left asleep; the second one kept its thread and was sent the IPI.
C17_SoleThreadTaken ==
    /\ pc[Runner] = "user"
    /\ limit.queued[Runner] = 0
    /\ \E c \in IdleWithWork, d \in IdleWithWork :
           /\ c # d
           /\ limit.queued[c] = 1
           /\ Gained(c) = -1
           /\ irq[c] = {}
           /\ c \in idle_cpu_mask
           /\ Gained(d) = 0
           /\ "ipi" \in irq[d]

(* ------------------------------------------------------------------ C18 *)

\* The CPUs that are about to execute wakeup_cpu(c), and those that have
\* taken the idle bit of c and are about to call send_ipi.
CallersOf(c) ==
    {d \in CPUS : pc[d] \in {"mts_wakeup", "mfs_wakeup"} /\ scan[d].cpu = c}

SendersTo(c) ==
    {d \in CPUS : pc[d] \in {"mts_ipi", "mfs_ipi"} /\ scan[d].cpu = c}

\* C18: wakeup_cpu(c) tests and clears the idle bit of c in one step and
\* sends the wakeup IPI if and only if the bit was set: a caller that finds
\* the bit set clears it and sends, one that finds it clear changes nothing
\* and sends nothing. So every IPI comes from a caller that took the bit,
\* every clearing of the bit makes exactly one sender, and of several CPUs
\* that call wakeup_cpu(c) while c has set its bit once, one sends.
C18_OneSender ==
    [][ \A c \in CPUS :
          /\ \A d \in CallersOf(c) :
                pc'[d] # pc[d]
                    => IF c \in idle_cpu_mask
                       THEN /\ idle_cpu_mask' = idle_cpu_mask \ {c}
                            /\ d \in SendersTo(c)'
                       ELSE /\ idle_cpu_mask' = idle_cpu_mask
                            /\ d \notin SendersTo(c)'
                            /\ irq' = irq
          /\ \A d \in SendersTo(c) : pc'[d] # pc[d] => "ipi" \in irq'[c]
          /\ SendersTo(c)' \ SendersTo(c) # {}
                => /\ c \in idle_cpu_mask
                   /\ c \notin idle_cpu_mask'
                   /\ Cardinality(SendersTo(c)' \ SendersTo(c)) = 1
          /\ c \in idle_cpu_mask /\ c \notin idle_cpu_mask'
                => Cardinality(SendersTo(c)' \ SendersTo(c)) = 1
          /\ "ipi" \in irq'[c] /\ "ipi" \notin irq[c]
                => \E d \in SendersTo(c) : pc'[d] # pc[d] ]_vars

\* Two CPUs are in wakeup_cpu for the same target: one has taken the bit and
\* is about to send, the other is about to find the bit clear.
C18_Contended ==
    \E c \in CPUS, d \in CPUS, e \in CPUS :
        /\ d # e
        /\ d \in SendersTo(c)
        /\ e \in CallersOf(c)
        /\ c \notin idle_cpu_mask

(* ------------------------------------------------------------------ C19 *)

\* C19: wakeup_or_interrupt_cpu_all clears the idle bit of every CPU other
\* than the caller and sends each of them a wakeup IPI, whether or not its
\* bit was set; the caller gets no IPI, and the caller's own idle bit and all
\* thread queues are as they were before the call. The last three hold at
\* every point of the call, the first two when it has returned.
C19_AllOthers ==
    /\ irq[limit.caller] = {}
    /\ limit.caller \in idle_cpu_mask <=> limit.caller \in limit.marked
    /\ thread_queue = limit.queues
    /\ pc[limit.caller] = "sys_unlock"
          => /\ idle_cpu_mask = limit.marked \cap {limit.caller}
             /\ \A d \in CPUS :
                   Present(d) /\ d # limit.caller => "ipi" \in irq[d]
             /\ \A d \in CPUS : ~Present(d) => irq[d] = {}

\* The call has returned on three CPUs: the caller's bit was set and still
\* is, one of the others was halted with its bit set, the other was in user
\* mode with its bit clear and has the IPI all the same, and a queue holds
\* a thread.
C19_Returned ==
    /\ pc[limit.caller] = "sys_unlock"
    /\ total_processors = 3
    /\ limit.caller \in limit.marked
    /\ \E d \in CPUS, e \in CPUS :
          /\ d # limit.caller /\ e # limit.caller
          /\ d \in limit.marked /\ state[d] = cpu_idle
          /\ e \notin limit.marked /\ "ipi" \in irq[e]
          /\ thread_queue[e] # << >>

(* ------------------------------------------------------------------ C20 *)

\* What update_timer does when it programs the timer: the timeout is
\* min(delta, runloop_timer_max) if delta > runloop_timer_min and
\* runloop_timer_min otherwise, it lies between the two bounds, and
\* next + timeout - delta = now + timeout is recorded in the global and in
\* the calling CPU's last_timer_update.
Programmed(c) ==
    LET next == timer_check(runloop_timers)
        delta == next - now
        timeout == hw_timer'[c] - now
    IN  /\ timer_updated'[c]
        /\ timeout = IF delta > runloop_timer_min
                     THEN (IF delta < runloop_timer_max
                           THEN delta ELSE runloop_timer_max)
                     ELSE runloop_timer_min
        /\ runloop_timer_min <= timeout
        /\ timeout <= runloop_timer_max
        /\ last_timer_update' = next + timeout - delta
        /\ last_timer_update' = now + timeout
        /\ ci_last_timer_update'[c] = last_timer_update'

\* What it does when it returns early: nothing is programmed or recorded.
NotProgrammed(c) ==
    /\ ~timer_updated'[c]
    /\ hw_timer' = hw_timer
    /\ last_timer_update' = last_timer_update
    /\ ci_last_timer_update' = ci_last_timer_update

\* C20 as stated: update_timer does not program the hardware timer when
\* next == last_timer_update, for every value of last_timer_update including
\* 0, and otherwise programs the clamped timeout and records now + timeout.
C20_SkipsWhenEqual ==
    [][ \A c \in CPUS :
          pc[c] = "update_timer" /\ pc'[c] = "unlock"
              => IF timer_check(runloop_timers) = last_timer_update
                 THEN NotProgrammed(c)
                 ELSE Programmed(c) ]_vars

\* C20, as far as it holds: update_timer does not program the hardware timer
\* when last_timer_update is not 0 and next == last_timer_update; in every
\* other case, last_timer_update = 0 = next included, it programs
\* timeout = min(delta, runloop_timer_max) if delta > runloop_timer_min and
\* runloop_timer_min otherwise, so runloop_timer_min <= timeout <=
\* runloop_timer_max, and records next + timeout - delta = now + timeout in
\* the global and in the calling CPU's last_timer_update.
C20_SkipsWhenEqualAndSet ==
    [][ \A c \in CPUS :
          pc[c] = "update_timer" /\ pc'[c] = "unlock"
              => IF /\ last_timer_update # 0
                    /\ timer_check(runloop_timers) = last_timer_update
                 THEN NotProgrammed(c)
                 ELSE Programmed(c) ]_vars

\* update_timer returned early on a system of several CPUs: the next
\* deadline is the recorded one and no timer was programmed.
C20_Skipped ==
    \E c \in CPUS :
        /\ total_processors > 1
        /\ pc[c] = "unlock"
        /\ ~timer_updated[c]
        /\ last_timer_update # 0
        /\ timer_check(runloop_timers) = last_timer_update
        /\ hw_timer[c] = 0

(* ------------------------------------------------------------------ C21 *)

\* The CPU's one-shot timer will still raise its interrupt, and will do so
\* at most runloop_timer_max from now; or its interrupt is already pending.
TimerAhead(c) ==
    \/ now < hw_timer[c] /\ hw_timer[c] <= now + runloop_timer_max
    \/ "timer" \in irq[c]

\* C21: on a system with more than one CPU, whenever the run loop resumes a
\* user thread on a CPU, that CPU's hardware timer is armed for a deadline no
\* later than now + runloop_timer_max, so the CPU re-enters the run loop
\* within runloop_timer_max. It is stated for a CPU that has programmed its
\* timer before, so that the clock's first value, 0, plays no part.
C21_ArmedAtResume ==
    [][ \A c \in CPUS :
          (/\ total_processors > 1
           /\ pc[c] = "phase4" /\ pc'[c] = "user"
           /\ ci_last_timer_update[c] > 0)
              => TimerAhead(c)' ]_vars

(* ------------------------------------------------------------------ C22 *)

\* C22: if a CPU saw the idle bit of CPU c set, cleared it and sends c the
\* wakeup IPI, then c leaves wait_for_interrupt and re-enters the run loop,
\* wherever c is in kernel_sleep when the bit is taken and when the IPI
\* arrives: about to set ci->state, about to set its bit and halt, or halted.
C22_WakeupWakes ==
    \A c \in CPUS :
        (WakeupInFlight(c) /\ pc[c] \in {"sleep", "sleep_mask", "halt"})
            ~> (pc[c] = "runloop")

\* The IPI has arrived at a CPU that is in kernel_sleep and has not halted
\* yet.
C22_IpiBeforeHalt ==
    \E c \in CPUS :
        /\ pc[c] = "sleep_mask"
        /\ state[c] = cpu_idle
        /\ "ipi" \in irq[c]

(* ------------------------------------------------------------------ C23 *)

\* C23: no step of kern_lock, kern_try_lock, kern_unlock, update_timer,
\* kernel_sleep, migrate_to_self, migrate_from_self or runloop_internal
\* executed by one CPU writes the state, have_kernel_lock or
\* last_timer_update field of another CPU: these fields of CPU d change only
\* in a step that d itself takes. What a step of another CPU does to d is at
\* most to change d's thread_queue, clear d's idle bit and make a wakeup IPI
\* pending at d; d's locals and its hardware timer stay as they are.
C23_OwnFieldsOnly ==
    [][ \A d \in CPUS :
          /\ (\/ state'[d] # state[d]
              \/ have_kernel_lock'[d] # have_kernel_lock[d]
              \/ ci_last_timer_update'[d] # ci_last_timer_update[d])
                => /\ pc'[d] # pc[d]
                   /\ \A e \in CPUS \ {d} : pc'[e] = pc[e]
          /\ (pc'[d] = pc[d] /\ \E e \in CPUS : pc'[e] # pc[e])
                => /\ t'[d] = t[d]
                   /\ scan'[d] = scan[d]
                   /\ timer_updated'[d] = timer_updated[d]
                   /\ hw_timer'[d] = hw_timer[d]
                   /\ lock_tried'[d] = lock_tried[d]
                   /\ irq[d] \subseteq irq'[d]
                   /\ irq'[d] \ irq[d] \subseteq {"ipi"}
                   /\ d \in idle_cpu_mask' => d \in idle_cpu_mask ]_vars

\* Another CPU has pushed a thread onto a halted CPU's queue, cleared its
\* idle bit and sent it the IPI; the halted CPU's own fields still say Idle.
C23_PushedAndWoken ==
    \E c \in CPUS, d \in CPUS :
        /\ c # d
        /\ pc[c] = "mfs_scan"
        /\ scan[c].cpu = d
        /\ pc[d] = "halt"
        /\ state[d] = cpu_idle
        /\ ~have_kernel_lock[d]
        /\ thread_queue[d] # << >>
        /\ d \notin idle_cpu_mask
        /\ "ipi" \in irq[d]

(* ------------------------------------------------------------------ C24 *)

\* Where a CPU is at the loop test of a migration scan, and where it is
\* dealing with the CPU the scan has found.
AtScanTest == {"mts_scan", "mfs_scan"}

Visiting == {"mts_dequeue", "mts_test", "mts_wakeup", "mts_ipi", "mfs_test",
             "mfs_dequeue", "mfs_enqueue", "mfs_wakeup", "mfs_ipi"}

\* The range the run loop passes to the call: self+1 .. total_processors-1
\* in the first call, 0 .. self-1 in the second.
PassStart(c) == IF scan[c].pass = 1 THEN c + 1 ELSE 0

PassEnd(c) == IF scan[c].pass = 1 THEN total_processors ELSE c

\* The scan of CPU c is inside its range and has not underflowed, and the
\* CPU it is dealing with lies in what is left of the range.
ScanInRange(c) ==
    /\ pc[c] \in AtScanTest \cup Visiting
          => /\ scan[c].pass \in {1, 2}
             /\ scan[c].n >= 0
             /\ scan[c].first >= PassStart(c)
             /\ scan[c].first + scan[c].n = PassEnd(c)
    /\ pc[c] \in Visiting
          => /\ scan[c].cpu >= scan[c].first
             /\ scan[c].cpu < scan[c].first + scan[c].n
             /\ scan[c].cpu # c
             /\ Present(scan[c].cpu)

\* C24: each migrate_to_self / migrate_from_self scan visits CPU ids in
\* strictly increasing order, each at most once and only inside
\* [first_cpu, first_cpu + ncpus), ncpus never goes below 0 and shrinks with
\* every CPU visited, so the scan ends, while other CPUs set and clear idle
\* bits; with the ranges the run loop passes the scanning CPU never visits
\* itself.
C24_ScanAdvances ==
    [][ \A c \in CPUS :
          /\ ScanInRange(c)
          /\ ScanInRange(c)'
          /\ (pc[c] \in AtScanTest /\ pc'[c] \in Visiting)
                => /\ scan'[c].cpu >= scan[c].first
                   /\ scan'[c].cpu < scan[c].first + scan[c].n
                   /\ scan'[c].cpu \in idle_cpu_mask
                   /\ scan'[c].first = scan[c].first
                   /\ scan'[c].n = scan[c].n
          /\ (pc[c] \in Visiting /\ pc'[c] \in Visiting)
                => /\ scan'[c].cpu = scan[c].cpu
                   /\ scan'[c].first = scan[c].first
                   /\ scan'[c].n = scan[c].n
          /\ (pc[c] \in Visiting /\ pc'[c] \in AtScanTest)
                => /\ scan'[c].first > scan[c].cpu
                   /\ scan'[c].n < scan[c].n
                   /\ scan'[c].n >= 0
                   /\ scan'[c].first + scan'[c].n
                          = scan[c].first + scan[c].n ]_vars

\* A CPU is at the second CPU of one scan while another CPU, which it did
\* not wake in this scan, is running its own run loop.
C24_SecondVisit ==
    \E c \in CPUS, d \in CPUS :
        /\ pc[c] \in Visiting
        /\ scan[c].first > PassStart(c)
        /\ d # c /\ d # scan[c].cpu
        /\ pc[d] \notin {"halt", "user", "absent", "syscall"}

(* ------------------------------------------------------------------ C25 *)

\* In how many places thread i is queued on a thread_queue or held by a CPU
\* (in the run loop's t or in migrate_from_self's t).
ThreadCopies(i) ==
    SumOver([c \in CPUS |-> QueuedCopies(thread_queue[c], i)
                            + HeldCopies(t[c], i)
                            + HeldCopies(scan[c].t, i)], CPUS)

\* C25: migration neither loses nor duplicates a thread. The threads that
\* are queued or held change only when a thread is resumed, which takes that
\* one thread out; and the thread migrate_from_self has dequeued from its
\* own queue is on the target's queue after the enqueue, behind whatever
\* other CPUs enqueued there since the queue_empty test.
C25_Conserved ==
    [][ /\ \A i \in TaskIds :
             IF executed'[i] # executed[i]
             THEN /\ executed'[i] = executed[i] + 1
                  /\ ThreadCopies(i) = 1
                  /\ ThreadCopies(i)' = 0
                  /\ \E c \in CPUS : /\ pc[c] = "phase4" /\ pc'[c] = "user"
                                      /\ t[c] = <<"thread", i>>
             ELSE ThreadCopies(i)' = ThreadCopies(i)
        /\ \A c \in CPUS :
             pc[c] = "mfs_enqueue" /\ pc'[c] # "mfs_enqueue"
                 => /\ scan[c].t # INVALID_ADDRESS
                    /\ thread_queue'[scan[c].cpu]
                          = Append(thread_queue[scan[c].cpu], scan[c].t)
                    /\ scan'[c].t = INVALID_ADDRESS ]_vars

\* A CPU is about to enqueue the thread it took from its own queue on a
\* target on which another CPU has enqueued since the queue_empty test.
C25_TargetNoLongerEmpty ==
    \E c \in CPUS :
        /\ pc[c] = "mfs_enqueue"
        /\ scan[c].t # INVALID_ADDRESS
        /\ ~queue_empty(thread_queue[scan[c].cpu])

(* ------------------------------------------------------------------ C26 *)

\* Where a CPU is between taking the kernel lock and the end of kern_unlock.
LockSection == {"kern_lock_own", "syscall", "sys_unlock", "sys_unlock2",
                "timer_service", "runq", "update_timer", "unlock", "unlock2"}

\* Where a CPU is from the shutting_down test of the run loop on: picking,
\* stealing or pushing a thread, running it, or in kernel_sleep.
PastPhase2 == Phase3 \cup {"select", "user", "sleep", "sleep_mask", "halt"}

\* C26: a CPU that took the kernel lock with kern_try_lock in Phase 2 has
\* released it before it selects, steals or migrates a thread: no CPU is
\* past Phase 2, resumes a user thread or halts in kernel_sleep with
\* have_kernel_lock true; and whenever the lock is held, a CPU is inside a
\* locked section, so a halted CPU never keeps another CPU's kern_lock
\* waiting.
C26_ReleasedBeforeSelect ==
    /\ \A c \in CPUS : pc[c] \in PastPhase2 => ~have_kernel_lock[c]
    /\ \A c \in CPUS :
          have_kernel_lock[c] => kernel_lock /\ pc[c] \in LockSection
    /\ kernel_lock => \E d \in CPUS : pc[d] \in LockSection

\* A CPU whose iteration took the lock in Phase 2 has halted, and another
\* CPU's kern_lock has gone through since.
C26_HaltedAfterLockedPhase2 ==
    \E c \in CPUS, d \in CPUS :
        /\ c # d
        /\ pc[c] = "halt"
        /\ lock_tried[c] = "got"
        /\ pc[d] = "syscall"
        /\ have_kernel_lock[d]

(* ------------------------------------------------------------------ C27 *)

\* A thread waits on a thread_queue while every CPU sits in
\* wait_for_interrupt with no interrupt pending and no hardware timer armed:
\* nothing that fair delivery of IPIs and timer interrupts could deliver.
ThreadStranded ==
    /\ \E c \in CPUS : ~queue_empty(thread_queue[c])
    /\ \A c \in CPUS :
           Present(c) => pc[c] = "halt" /\ irq[c] = {} /\ hw_timer[c] <= now

====
